---- MODULE Spec2Model ----
(***************************************************************************)
(* A model of the natura crate: the damped-spring solver (spring.rs), the  *)
(* projectile simulator (projectile.rs) and the frame-rate helper fps,     *)
(* and of the bevy-natura plugin: its components, resources and the        *)
(* per-frame natura_animation_system.                                      *)
(*                                                                         *)
(* Numbers.  The crate computes in f64.  An f64 is modelled as a decimal   *)
(* floating-point number [m, e] standing for m * 10^e, with a significand  *)
(* of exactly nine decimal digits (MantMin <= |m| < MantMax) or m = 0, and *)
(* every arithmetic operation rounds its exact result to the nearest such  *)
(* number, ties to even, as IEEE 754 arithmetic does with 53 binary        *)
(* digits.  So rounding, absorption and cancellation happen in the model   *)
(* as they do in the code, at nine digits instead of sixteen.  Exponents   *)
(* are unbounded: overflow to infinity and NaN are left out, and the       *)
(* inputs of the model stay far from them.  Where nine digits are too few  *)
(* (the derivations next to damping ratio 1), the same derivations are     *)
(* also given on fixed-point numbers of sixteen decimals.                  *)
(***************************************************************************)
EXTENDS Integers, Sequences, FiniteSets, TLC

\* ------------------------------------------------------------------------
\* f64 : nine-digit decimal floating point
\* ------------------------------------------------------------------------

MantMin == 100000000
MantMax == 1000000000

P10 == <<10, 100, 1000, 10000, 100000, 1000000, 10000000, 100000000,
         1000000000>>

Pow10(k) == IF k = 0 THEN 1 ELSE P10[k]

Abs(i) == IF i < 0 THEN -i ELSE i

Sgn(i) == IF i < 0 THEN -1 ELSE IF i > 0 THEN 1 ELSE 0

Cmp(x, y) == IF x < y THEN -1 ELSE IF x > y THEN 1 ELSE 0

Zero == [m |-> 0, e |-> 0]

\* The result of an operation f64 answers with an infinity or a NaN.
NonFinite == [m |-> 0, e |-> 1]

\* m * 10^e with |m| < MantMax, brought to nine digits (exact).
RECURSIVE ScaleUp(_, _)
ScaleUp(m, e) ==
    IF m = 0 THEN Zero
    ELSE IF Abs(m) >= MantMin THEN [m |-> m, e |-> e]
    ELSE ScaleUp(m * 10, e - 1)

\* A decimal literal: Dec(981, -2) is 9.81.
Dec(m, e) == ScaleUp(m, e)

FInt(n) == ScaleUp(n, 0)

One == FInt(1)

\* Round to nearest, ties to even: q is the kept magnitude, c compares the
\* dropped part with one half of a unit of q.
RoundMag(q, c) == IF c = 1 \/ (c = 0 /\ q % 2 = 1) THEN q + 1 ELSE q

\* A rounded nine-digit magnitude r (possibly MantMax after rounding up).
Pack(s, r, e) ==
    IF r = MantMax THEN [m |-> s * MantMin, e |-> e + 1]
    ELSE [m |-> s * r, e |-> e]

FNeg(a) == [m |-> -a.m, e |-> a.e]

FAbs(a) == [m |-> Abs(a.m), e |-> a.e]

\* The exact value s * (M * 10^d + r) * 10^e, 0 <= r < 10^d, M < 2 * MantMax,
\* rounded to nine digits.
RECURSIVE FinishMag(_, _, _, _, _)
FinishMag(s, M, r, d, e) ==
    IF M >= MantMax THEN
        Pack(s,
             RoundMag(M \div 10,
                      IF M % 10 > 5 \/ (M % 10 = 5 /\ r > 0) THEN 1
                      ELSE IF M % 10 = 5 /\ r = 0 THEN 0 ELSE -1),
             e + d + 1)
    ELSE IF d = 0 THEN ScaleUp(s * M, e)
    ELSE IF M >= MantMin THEN
        Pack(s, RoundMag(M, Cmp(2 * r, Pow10(d))), e + d)
    ELSE
        FinishMag(s, M * 10 + (r \div Pow10(d - 1)), r % Pow10(d - 1), d - 1, e)

\* The exact sum (T * 10^d + br) * 10^e, 0 <= br < 10^d, rounded.
AddSplit(T, br, p, d, e) ==
    IF T < 0 /\ br > 0 THEN FinishMag(-1, -T - 1, p - br, d, e)
    ELSE IF T < 0 THEN FinishMag(-1, -T, 0, d, e)
    ELSE FinishMag(1, T, br, d, e)

\* hi + lo for hi.e - lo.e = d >= 0, both non-zero.
AddShift(hi, lo, d) ==
    IF d >= 11 THEN hi
    ELSE IF d = 10 THEN
        IF Abs(hi.m) = MantMin /\ Sgn(hi.m) # Sgn(lo.m)
              /\ Abs(lo.m) > 5 * MantMin
        THEN [m |-> Sgn(hi.m) * (MantMax - 1), e |-> hi.e - 1]
        ELSE hi
    ELSE AddSplit(hi.m + (lo.m \div Pow10(d)), lo.m % Pow10(d), Pow10(d), d,
                  lo.e)

FAdd(a, b) ==
    IF a.m = 0 THEN b
    ELSE IF b.m = 0 THEN a
    ELSE IF a.e >= b.e THEN AddShift(a, b, a.e - b.e)
    ELSE AddShift(b, a, b.e - a.e)

FSub(a, b) == FAdd(a, FNeg(b))

FLt(a, b) == FSub(a, b).m < 0

FGt(a, b) == FSub(a, b).m > 0

FLe(a, b) == ~FGt(a, b)

FGe(a, b) == ~FLt(a, b)

\* f64::max
FMax(a, b) == IF FLt(a, b) THEN b ELSE a

\* The exact product of two magnitudes below MantMax, as <<H, L>> standing
\* for H * 10^9 + L, computed in three-digit limbs so that no intermediate
\* leaves the 32-bit range of the model checker.
MulCarry(c4, c3, Y, xl) ==
    << c4 * 1000 + c3 + (Y \div 1000), (Y % 1000) * 1000000 + xl >>

MulColumns(c4, c3, c2, X) ==
    MulCarry(c4, c3, c2 + (X \div 1000000), X % 1000000)

MulLimbs(x2, x1, x0, y2, y1, y0) ==
    MulColumns(x2 * y2,
               x2 * y1 + x1 * y2,
               x2 * y0 + x1 * y1 + x0 * y2,
               (x1 * y0 + x0 * y1) * 1000 + x0 * y0)

MulWide(x, y) ==
    MulLimbs(x \div 1000000, (x \div 1000) % 1000, x % 1000,
             y \div 1000000, (y \div 1000) % 1000, y % 1000)

\* s * (w[1] * 10^9 + w[2]) * 10^e rounded, for a product w of two
\* nine-digit magnitudes.
MulRound(w, s, e) ==
    IF w[1] >= MantMin
    THEN Pack(s, RoundMag(w[1], Cmp(w[2], 5 * MantMin)), e + 9)
    ELSE Pack(s, RoundMag(w[1] * 10 + (w[2] \div MantMin),
                          Cmp(2 * (w[2] % MantMin), MantMin)),
              e + 8)

FMul(a, b) ==
    IF a.m = 0 \/ b.m = 0 THEN Zero
    ELSE MulRound(MulWide(Abs(a.m), Abs(b.m)), Sgn(a.m) * Sgn(b.m), a.e + b.e)

\* <<q, r>> + r0 / y for the pair p = <<q, r>>, r0 < y, keeping r < y.
AddR(p, r0, y) ==
    IF p[2] + r0 >= y THEN <<p[1] + 1, p[2] + r0 - y>>
    ELSE <<p[1], p[2] + r0>>

\* <<(10 * r) \div y, (10 * r) % y>> for r < y and y >= MantMin, without
\* forming 10 * r: the digit q0 estimated with a divisor that is slightly
\* too large is the quotient or one less.
DigitFix(q0, rem0, y) ==
    IF rem0 >= y THEN <<q0 + 1, rem0 - y>> ELSE <<q0, rem0>>

DigitFrom(r, y, q0) ==
    DigitFix(q0, (r - q0 * (y \div 10)) * 10 - q0 * (y % 10), y)

Times10DivMod(r, y) == DigitFrom(r, y, r \div (y \div 10 + 1))

\* One more digit of a long division by y, from p = Times10DivMod of the
\* remainder; qr is <<digits so far, remainder>>.
DivStep(qr, p) == <<qr[1] * 10 + p[1], p[2]>>

\* n further digits of a long division (all zero once the remainder is).
RECURSIVE DivDigits(_, _, _)
DivDigits(qr, y, n) ==
    IF n = 0 \/ qr[2] = 0 THEN <<qr[1] * Pow10(n), qr[2]>>
    ELSE DivDigits(DivStep(qr, Times10DivMod(qr[2], y)), y, n - 1)

DivRound(qr, y, s, e) == Pack(s, RoundMag(qr[1], Cmp(2 * qr[2], y)), e)

\* s * (x / y) * 10^e rounded, for nine-digit magnitudes x and y; n is the
\* number of digits to develop after the first quotient digit.
DivMag(x, y, s, e, n) ==
    DivRound(DivDigits(<<x \div y, x % y>>, y, n), y, s, e - n)

FDiv(a, b) ==
    IF b.m = 0 THEN NonFinite
    ELSE IF a.m = 0 THEN Zero
    ELSE DivMag(Abs(a.m), Abs(b.m), Sgn(a.m) * Sgn(b.m), a.e - b.e,
                IF Abs(a.m) >= Abs(b.m) THEN 8 ELSE 9)

LeqWide(u, v) == u[1] < v[1] \/ (u[1] = v[1] /\ u[2] <= v[2])

\* floor(N / r) for a wide N = <<H, L>> whose L is one digit followed by
\* eight zeros, and H <= r.
WideQuotFrom(acc, p, r) == DivDigits(DivStep(<<acc, 0>>, p), r, 8)[1]

WideQuot(N, r) ==
    WideQuotFrom(N[1] \div r,
                 AddR(Times10DivMod(N[1] % r, r), N[2] \div MantMin, r), r)

\* floor(sqrt(N)) by Newton's iteration on integers, started from above.
RECURSIVE RootSearch(_, _)
RootSearch(r, N) ==
    IF (r + WideQuot(N, r)) \div 2 >= r THEN r
    ELSE RootSearch((r + WideQuot(N, r)) \div 2, N)

\* u + r for a wide u.
AddWide(u, r) ==
    IF u[2] + r >= MantMax THEN <<u[1] + 1, u[2] + r - MantMax>>
    ELSE <<u[1], u[2] + r>>

\* r = floor(sqrt(N)) rounded up when (r + 1/2)^2 < N, that is r*r + r < N.
RootRound(r, up, N, e) ==
    Pack(1, RoundMag(r, IF up # N /\ LeqWide(up, N) THEN 1 ELSE -1), e)

RootOf(r, N, e) == RootRound(r, AddWide(MulWide(r, r), r), N, e)

\* f64::sqrt (correctly rounded).
FSqrt(a) ==
    IF a.m < 0 THEN NonFinite
    ELSE IF a.m = 0 THEN Zero
    ELSE IF a.e % 2 = 0
    THEN RootOf(RootSearch(MantMax - 1, <<a.m \div 10, (a.m % 10) * MantMin>>),
                <<a.m \div 10, (a.m % 10) * MantMin>>, (a.e - 8) \div 2)
    ELSE RootOf(RootSearch(MantMax - 1, <<a.m, 0>>), <<a.m, 0>>,
                (a.e - 9) \div 2)

Half == Dec(5, -1)

SeriesTerms == 40

\* sum + t + (the terms after t), t being the term of degree k and each
\* term the one before it times x / (k + 1): the series of exp, summed
\* until a term no longer changes the sum.
RECURSIVE ExpSeries(_, _, _, _)
ExpSeries(x, t, sum, k) ==
    IF FAdd(sum, t) = sum \/ k >= SeriesTerms THEN FAdd(sum, t)
    ELSE ExpSeries(x, FDiv(FMul(t, x), FInt(k + 1)), FAdd(sum, t), k + 1)

Square(h) == FMul(h, h)

\* f64::exp, by halving the argument until |x| <= 1/2 and squaring back.
RECURSIVE FExp(_)
FExp(x) ==
    IF x.m = 0 THEN One
    ELSE IF FGt(FAbs(x), Half) THEN Square(FExp(FMul(x, Half)))
    ELSE ExpSeries(x, x, One, 1)

\* The alternating series of sin and cos: t is the term of degree k and
\* each term is the one before it times -x2 / ((k+1)(k+2)).
RECURSIVE TrigSeries(_, _, _, _)
TrigSeries(x2, t, sum, k) ==
    IF FAdd(sum, t) = sum \/ k >= SeriesTerms THEN FAdd(sum, t)
    ELSE TrigSeries(x2, FNeg(FDiv(FMul(t, x2), FInt((k + 1) * (k + 2)))),
                    FAdd(sum, t), k + 2)

CosSeries(x2) == TrigSeries(x2, FNeg(FMul(x2, Half)), One, 2)

SinSeries(x, x2) == TrigSeries(x2, FNeg(FDiv(FMul(x, x2), FInt(6))), x, 3)

\* f64::cos and f64::sin, by their Taylor series (arguments within a few
\* radians of 0, which is where the model's inputs put them).
FCos(x) == IF x.m = 0 THEN One ELSE CosSeries(FMul(x, x))

FSin(x) == IF x.m = 0 THEN Zero ELSE SinSeries(x, FMul(x, x))

\* ------------------------------------------------------------------------
\* spring.rs
\* ------------------------------------------------------------------------

EPSILON == Dec(1, -8)

\* The u64 argument of fps is four 16-bit words, w3 the most significant:
\* the model checker's integers are 32 bits wide.
Word == 65536

U64(w3, w2, w1, w0) == [w3 |-> w3, w2 |-> w2, w1 |-> w1, w0 |-> w0]

\* A narrowing that saturates instead of wrapping: u32::MAX for an argument
\* of 2^32 or more.
AsU32_saturating(n) ==
    IF n.w3 = 0 /\ n.w2 = 0 THEN [w1 |-> n.w1, w0 |-> n.w0]
    ELSE [w1 |-> Word - 1, w0 |-> Word - 1]

\* `n as u32`: the low 32 bits.
AsU32(n) == [w1 |-> n.w1, w0 |-> n.w0]

NANOS_PER_SEC == 1000000000

\* Duration::from_secs(1).as_nanos() / Duration::new(0, d).as_nanos() in
\* u128, for a u32 d # 0.  A d of 2^31 or more exceeds one second.
SecondOverDuration(d) ==
    IF d.w1 >= Word \div 2 THEN 0
    ELSE NANOS_PER_SEC \div (d.w1 * Word + d.w0)

\* `q as f64` for 0 <= q <= 10^9.
AsF64(q) == FinishMag(1, q, 0, 0, 0)

\* fps as it would be if a zero divisor yielded a value (the quotient taken
\* as 0) instead of a panic.
fps_duration_without_panic(duration) ==
    [panicked |-> FALSE,
     value |-> IF duration.w1 = 0 /\ duration.w0 = 0 THEN Zero
               ELSE FDiv(FDiv(AsF64(SecondOverDuration(duration)), Dec(1, 6)),
                         Dec(1, 3))]

\* The division and the two f64 divisions of fps, for the Duration's
\* nanoseconds: [panicked |-> TRUE] when the integer division panics
\* ("attempt to divide by zero"), else the f64 returned.
fps_duration(duration) ==
    IF duration.w1 = 0 /\ duration.w0 = 0
    THEN [panicked |-> TRUE, value |-> Zero]
    ELSE [panicked |-> FALSE,
          value |-> FDiv(FDiv(AsF64(SecondOverDuration(duration)), Dec(1, 6)),
                         Dec(1, 3))]

\* fps(n: u64) -> f64
fps(n) == fps_duration(AsU32(n))

\* Spring::default()
Spring_default ==
    [pos_pos_coef |-> Zero, pos_vel_coef |-> Zero,
     vel_pos_coef |-> Zero, vel_vel_coef |-> Zero]

\* calculate_critically_damped, one operator per group of `let`s; each
\* parameter is the local variable of that name.
critically_damped_coefs_undamped(angular_frequency, exp_term, time_exp, time_exp_freq) ==
    [pos_pos_coef |-> FAdd(time_exp_freq, exp_term),
     pos_vel_coef |-> time_exp,
     vel_pos_coef |-> FMul(FNeg(angular_frequency), time_exp_freq),
     vel_vel_coef |-> FAdd(time_exp_freq, exp_term)]

critically_damped_coefs(angular_frequency, exp_term, time_exp, time_exp_freq) ==
    [pos_pos_coef |-> FAdd(time_exp_freq, exp_term),
     pos_vel_coef |-> time_exp,
     vel_pos_coef |-> FMul(FNeg(angular_frequency), time_exp_freq),
     vel_vel_coef |-> FAdd(FNeg(time_exp_freq), exp_term)]

critically_damped_time_exp(angular_frequency, exp_term, time_exp) ==
    critically_damped_coefs(angular_frequency, exp_term, time_exp,
                            FMul(time_exp, angular_frequency))

critically_damped_exp(delta_time, angular_frequency, exp_term) ==
    critically_damped_time_exp(angular_frequency, exp_term,
                               FMul(delta_time, exp_term))

calculate_critically_damped(delta_time, angular_frequency) ==
    critically_damped_exp(delta_time, angular_frequency,
                          FExp(FMul(FNeg(angular_frequency), delta_time)))

\* calculate_under_damped, in the same style.
under_damped_coefs(omega_zeta, alpha, inv_alpha, exp_sin, exp_cos, exp_omega_zeta_sin_over_alpha) ==
    [pos_pos_coef |-> FAdd(exp_cos, exp_omega_zeta_sin_over_alpha),
     pos_vel_coef |-> FMul(exp_sin, inv_alpha),
     vel_pos_coef |-> FSub(FMul(FNeg(exp_sin), alpha),
                           FMul(omega_zeta, exp_omega_zeta_sin_over_alpha)),
     vel_vel_coef |-> FSub(exp_cos, exp_omega_zeta_sin_over_alpha)]

under_damped_products(omega_zeta, alpha, exp_term, cos_term, sin_term, inv_alpha) ==
    under_damped_coefs(omega_zeta, alpha, inv_alpha,
                       FMul(exp_term, sin_term), FMul(exp_term, cos_term),
                       FMul(FMul(FMul(exp_term, omega_zeta), sin_term),
                            inv_alpha))

\* The under-damped terms with the sign of the exponent lost: an envelope
\* that grows.
under_damped_terms_growing(delta_time, omega_zeta, alpha) ==
    under_damped_products(omega_zeta, alpha,
                          FExp(FMul(omega_zeta, delta_time)),
                          FCos(FMul(alpha, delta_time)),
                          FSin(FMul(alpha, delta_time)),
                          FDiv(One, alpha))

under_damped_terms(delta_time, omega_zeta, alpha) ==
    under_damped_products(omega_zeta, alpha,
                          FExp(FMul(FNeg(omega_zeta), delta_time)),
                          FCos(FMul(alpha, delta_time)),
                          FSin(FMul(alpha, delta_time)),
                          FDiv(One, alpha))

\* let alpha = angular_frequency * (1.0 - damping_ratio * damping_ratio).sqrt();
under_damped_alpha(angular_frequency, damping_ratio) ==
    FMul(angular_frequency,
         FSqrt(FSub(One, FMul(damping_ratio, damping_ratio))))

calculate_under_damped(delta_time, angular_frequency, damping_ratio) ==
    under_damped_terms(delta_time, FMul(angular_frequency, damping_ratio),
                       under_damped_alpha(angular_frequency, damping_ratio))

\* calculate_over_damped, in the same style.
over_damped_coefs(z2, e2, e1_over_two_zb, e2_over_two_zb, z1e1_over_two_zb, z2e2_over_two_zb) ==
    [pos_pos_coef |-> FAdd(FSub(FMul(e1_over_two_zb, z2), z2e2_over_two_zb),
                           e2),
     pos_vel_coef |-> FAdd(FNeg(e1_over_two_zb), e2_over_two_zb),
     vel_pos_coef |-> FMul(FAdd(FSub(z1e1_over_two_zb, z2e2_over_two_zb), e2),
                           z2),
     vel_vel_coef |-> FAdd(FNeg(z1e1_over_two_zb), z2e2_over_two_zb)]

over_damped_products(z1, z2, e2, e1_over_two_zb, e2_over_two_zb) ==
    over_damped_coefs(z2, e2, e1_over_two_zb, e2_over_two_zb,
                      FMul(z1, e1_over_two_zb), FMul(z2, e2_over_two_zb))

over_damped_scaled(z1, z2, e1, e2, inv_two_zb) ==
    over_damped_products(z1, z2, e2, FMul(e1, inv_two_zb),
                         FMul(e2, inv_two_zb))

over_damped_exps(delta_time, zb, z1, z2) ==
    over_damped_scaled(z1, z2, FExp(FMul(z1, delta_time)),
                       FExp(FMul(z2, delta_time)),
                       FDiv(One, FMul(FInt(2), zb)))

over_damped_roots(delta_time, za, zb) ==
    over_damped_exps(delta_time, zb, FSub(za, zb), FAdd(za, zb))

\* let zb = angular_frequency * (damping_ratio * damping_ratio - 1.0).sqrt();
over_damped_zb(angular_frequency, damping_ratio) ==
    FMul(angular_frequency,
         FSqrt(FSub(FMul(damping_ratio, damping_ratio), One)))

calculate_over_damped(delta_time, angular_frequency, damping_ratio) ==
    over_damped_roots(delta_time, FMul(FNeg(angular_frequency), damping_ratio),
                      over_damped_zb(angular_frequency, damping_ratio))

\* Spring::new without the clamp.
clamp_nothing(x) == x

\* `f64::max(0.0, x)`: "keep values in a legal range".
clamp_legal(x) == FMax(Zero, x)

\* The identity transform Spring::new returns for a spring that cannot move.
identity_coefficients ==
    [pos_pos_coef |-> One, pos_vel_coef |-> Zero,
     vel_pos_coef |-> Zero, vel_vel_coef |-> One]

\* The regime chosen by comparing with 1 itself, without the EPSILON band.
damping_branch_without_epsilon(damping_ratio) ==
    IF FGt(damping_ratio, One) THEN "over_damped"
    ELSE IF FLt(damping_ratio, One) THEN "under_damped"
    ELSE "critically_damped"

\* The if / else if / else of Spring::new over the clamped damping ratio.
damping_branch(damping_ratio) ==
    IF FGt(damping_ratio, FAdd(One, EPSILON)) THEN "over_damped"
    ELSE IF FLt(damping_ratio, FSub(One, EPSILON)) THEN "under_damped"
    ELSE "critically_damped"

\* Spring::new without its early return for a spring that cannot move.
new_branch_without_identity(angular_frequency, damping_ratio) ==
    damping_branch(damping_ratio)

\* Spring::new returning early only for a negative angular frequency: the
\* threshold EPSILON replaced by zero.
new_branch_identity_below_zero(angular_frequency, damping_ratio) ==
    IF FLt(angular_frequency, Zero) THEN "identity"
    ELSE damping_branch(damping_ratio)

\* The derivation Spring::new takes for the clamped arguments.
new_branch(angular_frequency, damping_ratio) ==
    IF FLt(angular_frequency, EPSILON) THEN "identity"
    ELSE damping_branch(damping_ratio)

new_spring(delta_time, angular_frequency, damping_ratio, taken) ==
    [branch |-> taken,
     spring |->
        CASE taken = "identity" -> identity_coefficients
          [] taken = "over_damped" ->
                calculate_over_damped(delta_time, angular_frequency,
                                      damping_ratio)
          [] taken = "under_damped" ->
                calculate_under_damped(delta_time, angular_frequency,
                                       damping_ratio)
          [] OTHER ->
                calculate_critically_damped(delta_time, angular_frequency)]

new_clamped(delta_time, angular_frequency, damping_ratio) ==
    new_spring(delta_time, angular_frequency, damping_ratio,
               new_branch(angular_frequency, damping_ratio))

\* Spring::new.  `spring` is the Spring returned; `branch` records which
\* derivation produced it (an observation of the control flow, no field of
\* the struct).
Spring_new(delta_time, angular_frequency, damping_ratio) ==
    new_clamped(delta_time, clamp_legal(angular_frequency),
                clamp_legal(damping_ratio))

\* The body of Spring::update once old_pos and old_vel are bound.
update_from(self, old_pos, old_vel, equilibrium_pos) ==
    [self |-> self,
     pos |-> FAdd(FAdd(FMul(old_pos, self.pos_pos_coef),
                       FMul(old_vel, self.pos_vel_coef)),
                  equilibrium_pos),
     vel |-> FAdd(FMul(old_pos, self.vel_pos_coef),
                  FMul(old_vel, self.vel_vel_coef))]

\* Spring::update re-adding the equilibrium to the velocity as well.
Spring_update_offsets_velocity(self, pos, vel, equilibrium_pos) ==
    [self |-> self,
     pos |-> update_from(self, FSub(pos, equilibrium_pos), vel,
                         equilibrium_pos).pos,
     vel |-> FAdd(update_from(self, FSub(pos, equilibrium_pos), vel,
                              equilibrium_pos).vel,
                  equilibrium_pos)]

\* Spring::update using its `&mut self` to keep the last velocity in the
\* spring.
Spring_update_stores_state(self, pos, vel, equilibrium_pos) ==
    [self |-> [self EXCEPT !.pos_vel_coef = vel],
     pos |-> update_from(self, FSub(pos, equilibrium_pos), vel,
                         equilibrium_pos).pos,
     vel |-> update_from(self, FSub(pos, equilibrium_pos), vel,
                         equilibrium_pos).vel]

\* Spring::update without `let old_pos = pos - equilibrium_pos;`.
Spring_update_absolute(self, pos, vel, equilibrium_pos) == update_from(self, pos, vel, equilibrium_pos)

\* Spring::update(&mut self, pos, vel, equilibrium_pos): the pair returned
\* and the Spring as the call leaves it.
Spring_update(self, pos, vel, equilibrium_pos) ==
    update_from(self, FSub(pos, equilibrium_pos), vel, equilibrium_pos)

\* ------------------------------------------------------------------------
\* bevy-natura: NaturaSpring, the spring with its cached coefficients
\* ------------------------------------------------------------------------

None == [some |-> FALSE]

Some(v) == [some |-> TRUE, value |-> v]

\* NaturaSpring::new
NaturaSpring_new(angular_frequency, damping_ratio) ==
    [angular_frequency |-> angular_frequency,
     damping_ratio |-> damping_ratio,
     cached_spring |-> None]

CACHE_TOLERANCE == Dec(1, -3)

\* `needs_update` with no tolerance: any change of the delta.
needs_update_on_change(self, delta_seconds) ==
    IF self.cached_spring.some THEN self.cached_spring.value.dt # delta_seconds ELSE TRUE

\* `needs_update` of NaturaSpring::get_spring.
needs_update(self, delta_seconds) ==
    IF self.cached_spring.some
    THEN FGt(FAbs(FSub(self.cached_spring.value.dt, delta_seconds)),
             CACHE_TOLERANCE)
    ELSE TRUE

\* NaturaSpring::get_spring: the component as the call leaves it.
get_spring(self, delta_seconds) ==
    IF needs_update(self, delta_seconds)
    THEN [self EXCEPT !.cached_spring =
             Some([dt |-> delta_seconds,
                   spring |-> Spring_new(delta_seconds, self.angular_frequency,
                                         self.damping_ratio).spring])]
    ELSE self

updated_with(got, r) ==
    [self |-> [got EXCEPT !.cached_spring.value.spring = r.self],
     pos |-> r.pos, vel |-> r.vel]

update_cached(got, pos, vel, equilibrium_pos) ==
    updated_with(got, Spring_update(got.cached_spring.value.spring, pos, vel,
                                    equilibrium_pos))

\* NaturaSpring::update
NaturaSpring_update(self, pos, vel, equilibrium_pos, delta_seconds) ==
    update_cached(get_spring(self, delta_seconds), pos, vel, equilibrium_pos)

\* ------------------------------------------------------------------------
\* projectile.rs
\* ------------------------------------------------------------------------

Vec3(x, y, z) == [x |-> x, y |-> y, z |-> z]

GRAVITY == Vec3(Zero, Dec(-981, -2), Zero)

TERMINAL_GRAVITY == Vec3(Zero, Dec(981, -2), Zero)

\* Projectile::new
Projectile_new(delta_time, initial_position, initial_velocity, initial_acceleration) ==
    [pos |-> initial_position, vel |-> initial_velocity,
     acc |-> initial_acceleration, delta_time |-> delta_time]

\* Projectile::update with the two halves in the other order: the position
\* advanced by the velocity the same call has just computed.
Projectile_update_velocity_first(self) ==
    [self EXCEPT
       !.pos = Vec3(FAdd(self.pos.x,
                         FMul(FAdd(self.vel.x,
                                   FMul(self.acc.x, self.delta_time)),
                              self.delta_time)),
                    FAdd(self.pos.y,
                         FMul(FAdd(self.vel.y,
                                   FMul(self.acc.y, self.delta_time)),
                              self.delta_time)),
                    FAdd(self.pos.z,
                         FMul(FAdd(self.vel.z,
                                   FMul(self.acc.z, self.delta_time)),
                              self.delta_time))),
       !.vel = Vec3(FAdd(self.vel.x, FMul(self.acc.x, self.delta_time)),
                    FAdd(self.vel.y, FMul(self.acc.y, self.delta_time)),
                    FAdd(self.vel.z, FMul(self.acc.z, self.delta_time)))]

\* Projectile::update: the projectile as the call leaves it (the call
\* returns its pos).  Every right-hand side reads the fields as they were
\* when the statement ran: the velocity the position adds is the old one.
Projectile_update(self) ==
    [self EXCEPT
       !.pos = Vec3(FAdd(self.pos.x, FMul(self.vel.x, self.delta_time)),
                    FAdd(self.pos.y, FMul(self.vel.y, self.delta_time)),
                    FAdd(self.pos.z, FMul(self.vel.z, self.delta_time))),
       !.vel = Vec3(FAdd(self.vel.x, FMul(self.acc.x, self.delta_time)),
                    FAdd(self.vel.y, FMul(self.acc.y, self.delta_time)),
                    FAdd(self.vel.z, FMul(self.acc.z, self.delta_time)))]

\* Projectile::position answering with where the next update would put the
\* projectile.
Projectile_position_ahead(self) == Projectile_update(self).pos

\* Projectile::position(&self): a shared borrow, so the call cannot write
\* the projectile.
Projectile_position(self) == self.pos

\* ------------------------------------------------------------------------
\* bevy-natura: components, resources and natura_animation_system
\* ------------------------------------------------------------------------

\* `as f32`: the nearest number with the shorter significand, four decimal
\* digits standing for the 24 binary digits of an f32 as nine stand for the
\* 53 of an f64.
F32Round(s, q, r, e) == ScaleUp(s * RoundMag(q, Cmp(2 * r, 100000)), e + 5)

AsF32(x) == IF x.m = 0 THEN Zero ELSE F32Round(Sgn(x.m), Abs(x.m) \div 100000, Abs(x.m) % 100000, x.e)

\* f64::min
FMin(a, b) == IF FLt(b, a) THEN b ELSE a

\* NaturaSprite::new
NaturaSprite_new(x, y, z) == [x |-> x, x_velocity |-> Zero, y |-> y, y_velocity |-> Zero, z |-> z, z_velocity |-> Zero]

\* NaturaSprite::is_at_rest
is_at_rest(self, velocity_threshold) ==
    /\ FLt(FAbs(self.x_velocity), velocity_threshold)
    /\ FLt(FAbs(self.y_velocity), velocity_threshold)
    /\ FLt(FAbs(self.z_velocity), velocity_threshold)

\* NaturaTarget::new
NaturaTarget_new(x, y, z) == Vec3(x, y, z)

\* PausedGroups: the set of paused group ids.
PausedGroups_default == {}

PausedGroups_pause(self, group_id) == self \cup {group_id}

PausedGroups_resume(self, group_id) == self \ {group_id}

PausedGroups_is_paused(self, group_id) == group_id \in self

\* NaturaSpringBundle::new
NaturaSpringBundle_new(angular_frequency, damping_ratio) ==
    [sprite |-> NaturaSprite_new(Zero, Zero, Zero),
     spring |-> NaturaSpring_new(angular_frequency, damping_ratio),
     state |-> "Idle",
     easing |-> "None"]

\* NaturaSpringBundle::with_easing
NaturaSpringBundle_with_easing(angular_frequency, damping_ratio, easing) ==
    [sprite |-> NaturaSprite_new(Zero, Zero, Zero),
     spring |-> NaturaSpring_new(angular_frequency, damping_ratio),
     state |-> "Idle",
     easing |-> easing]

\* NaturaSpringBundle::with_group: the bundle has no AnimationGroup field,
\* and _group_id is not used.
NaturaSpringBundle_with_group(angular_frequency, damping_ratio, _group_id) ==
    [sprite |-> NaturaSprite_new(Zero, Zero, Zero),
     spring |-> NaturaSpring_new(angular_frequency, damping_ratio),
     state |-> "Idle",
     easing |-> "None"]

REST_VELOCITY_THRESHOLD == Dec(1, -2)

TARGET_POSITION_THRESHOLD == Dec(1, -1)

\* `let blend_factor = 0.3;`
blend_factor == Dec(3, -1)

\* t - k / d1, the shifted argument of the later arcs of Bounce.
bounce_arc(t, shift, rise) == FAdd(FMul(FMul(Dec(75625, -4), FSub(t, shift)), FSub(t, shift)), rise)

bounce(t, d1) ==
    IF FLt(t, FDiv(One, d1)) THEN FMul(FMul(Dec(75625, -4), t), t)
    ELSE IF FLt(t, FDiv(FInt(2), d1)) THEN bounce_arc(t, FDiv(Dec(15, -1), d1), Dec(75, -2))
    ELSE IF FLt(t, FDiv(Dec(25, -1), d1)) THEN bounce_arc(t, FDiv(Dec(225, -2), d1), Dec(9375, -4))
    ELSE bounce_arc(t, FDiv(Dec(2625, -3), d1), Dec(984375, -6))

cube(t) == FMul(FMul(t, t), t)

\* std::f64::consts::PI
PI == Dec(314159265, -8)

\* f64::sin of an argument beyond half a turn: whole turns are taken off
\* before the series.
RECURSIVE sin_turns(_)
sin_turns(x) == IF FGt(x, PI) THEN sin_turns(FSub(x, FMul(FInt(2), PI))) ELSE FSin(x)

\* (2.0_f64).powf(y), as exp(y ln 2)
powf_2(y) == FExp(FMul(y, Dec(693147181, -9)))

\* The else arm of Elastic.
elastic(t, p, s) ==
    FAdd(FMul(powf_2(FMul(FInt(-10), t)), sin_turns(FMul(FSub(t, s), FDiv(FMul(FInt(2), PI), p)))), One)

\* The arms of EasingCurve::apply over the clamped argument.
apply_clamped(self, t) ==
    CASE self = "None" -> t
      [] self = "EaseIn" -> FMul(t, t)
      [] self = "EaseOut" -> FSub(One, FMul(FSub(One, t), FSub(One, t)))
      [] self = "EaseInOut" ->
            IF FLt(t, Half) THEN FMul(FMul(FInt(2), t), t)
            ELSE FSub(One, FDiv(Square(FAdd(FMul(FInt(-2), t), FInt(2))), FInt(2)))
      [] self = "QuadraticIn" -> FMul(t, t)
      [] self = "QuadraticOut" -> FMul(t, FSub(FInt(2), t))
      [] self = "CubicIn" -> cube(t)
      [] self = "CubicOut" -> FAdd(cube(FSub(t, One)), One)
      [] self = "Elastic" -> IF t = Zero \/ t = One THEN t ELSE elastic(t, Dec(3, -1), FDiv(Dec(3, -1), FInt(4)))
      [] self = "Bounce" -> bounce(t, Dec(275, -2))

\* EasingCurve::apply without its clamp.
EasingCurve_apply_unclamped(self, t) == apply_clamped(self, t)

\* EasingCurve::apply: `let t = t.clamp(0.0, 1.0);` and the match.
EasingCurve_apply(self, t) == apply_clamped(self, FMin(FMax(t, Zero), One))

\* The distance between the sprite and the target.
distance(sprite, tgt) ==
    FSqrt(FAdd(FAdd(Square(FSub(sprite.x, tgt.x)), Square(FSub(sprite.y, tgt.y))),
               Square(FSub(sprite.z, tgt.z))))

\* The three spring.update calls, one axis after the other on the same
\* NaturaSpring, and the assignments of their results to the sprite.
axes_updated(c, rx, ry, rz) ==
    [c EXCEPT !.spring = rz.self,
              !.sprite = [x |-> rx.pos, x_velocity |-> rx.vel, y |-> ry.pos, y_velocity |-> ry.vel, z |-> rz.pos, z_velocity |-> rz.vel]]

update_z(c, dt, rx, ry) == axes_updated(c, rx, ry, NaturaSpring_update(ry.self, c.sprite.z, c.sprite.z_velocity, c.target.z, dt))

update_y(c, dt, rx) == update_z(c, dt, rx, NaturaSpring_update(rx.self, c.sprite.y, c.sprite.y_velocity, c.target.y, dt))

update_axes(c, dt) == update_y(c, dt, NaturaSpring_update(c.spring, c.sprite.x, c.sprite.x_velocity, c.target.x, dt))

\* sprite.x * (1.0 - blend_factor) + eased_x * blend_factor, with
\* eased_x = sprite.x + (target.x - sprite.x) * eased_progress * blend_factor
blend_axis(pos, tgt, eased_progress) ==
    FAdd(FMul(pos, FSub(One, blend_factor)),
         FMul(FAdd(pos, FMul(FMul(FSub(tgt, pos), eased_progress), blend_factor)), blend_factor))

blended(c, eased_progress) ==
    [c EXCEPT !.sprite.x = blend_axis(c.sprite.x, c.target.x, eased_progress),
              !.sprite.y = blend_axis(c.sprite.y, c.target.y, eased_progress),
              !.sprite.z = blend_axis(c.sprite.z, c.target.z, eased_progress)]

\* easing.copied().unwrap_or(EasingCurve::None)
easing_curve(c) == IF c.easing.some THEN c.easing.value ELSE "None"

\* The easing block: c is the entity after the spring updates.
eased(c, prev_distance) ==
    IF easing_curve(c) # "None" /\ FGt(prev_distance, TARGET_POSITION_THRESHOLD)
    THEN blended(c, EasingCurve_apply(easing_curve(c),
                     FSub(One, FMin(FDiv(distance(c.sprite, c.target), prev_distance), One))))
    ELSE c

\* transform.translation = sprite position `as f32`
with_transform(c) == [c EXCEPT !.transform = Vec3(AsF32(c.sprite.x), AsF32(c.sprite.y), AsF32(c.sprite.z))]

at_target(c) ==
    /\ FLt(FAbs(FSub(c.sprite.x, c.target.x)), TARGET_POSITION_THRESHOLD)
    /\ FLt(FAbs(FSub(c.sprite.y, c.target.y)), TARGET_POSITION_THRESHOLD)
    /\ FLt(FAbs(FSub(c.sprite.z, c.target.z)), TARGET_POSITION_THRESHOLD)

AnimationStarted(entity, tgt) == [event |-> "AnimationStarted", entity |-> entity, target |-> Vec3(AsF32(tgt.x), AsF32(tgt.y), AsF32(tgt.z))]

AnimationCompleted(entity, sprite) == [event |-> "AnimationCompleted", entity |-> entity, final_position |-> Vec3(AsF32(sprite.x), AsF32(sprite.y), AsF32(sprite.z))]

\* The Animating arm completing as soon as the sprite is on the target, at
\* whatever speed.
match_state_completes_on_target(entity, c, now_at_rest, now_at_target) ==
    CASE c.state = "Idle" ->
            IF ~now_at_rest /\ ~now_at_target
            THEN [state |-> "Animating", sent |-> <<AnimationStarted(entity, c.target)>>]
            ELSE [state |-> "Idle", sent |-> <<>>]
      [] c.state = "Animating" ->
            IF now_at_target
            THEN [state |-> "JustCompleted", sent |-> <<AnimationCompleted(entity, c.sprite)>>]
            ELSE [state |-> "Animating", sent |-> <<>>]
      [] c.state = "JustCompleted" -> [state |-> "Idle", sent |-> <<>>]

\* `match *state { ... }`: the state it leaves and the events it sends.
match_state(entity, c, now_at_rest, now_at_target) ==
    CASE c.state = "Idle" ->
            IF ~now_at_rest /\ ~now_at_target
            THEN [state |-> "Animating", sent |-> <<AnimationStarted(entity, c.target)>>]
            ELSE [state |-> "Idle", sent |-> <<>>]
      [] c.state = "Animating" ->
            IF now_at_rest /\ now_at_target
            THEN [state |-> "JustCompleted", sent |-> <<AnimationCompleted(entity, c.sprite)>>]
            ELSE [state |-> "Animating", sent |-> <<>>]
      [] c.state = "JustCompleted" -> [state |-> "Idle", sent |-> <<>>]

\* The trailing `if` without its test of the state.
restarted_in_any_state(entity, c, prev_at_rest, now_at_rest, m) ==
    IF prev_at_rest /\ ~now_at_rest
    THEN [c |-> [c EXCEPT !.state = "Animating"], sent |-> Append(m.sent, AnimationStarted(entity, c.target))]
    ELSE [c |-> [c EXCEPT !.state = m.state], sent |-> m.sent]

\* `if prev_at_rest && !now_at_rest && *state == AnimationState::Idle`
restarted(entity, c, prev_at_rest, now_at_rest, m) ==
    IF prev_at_rest /\ ~now_at_rest /\ m.state = "Idle"
    THEN [c |-> [c EXCEPT !.state = "Animating"], sent |-> Append(m.sent, AnimationStarted(entity, c.target))]
    ELSE [c |-> [c EXCEPT !.state = m.state], sent |-> m.sent]

\* The state machine for an entity whose position the frame has updated.
state_machine(entity, c, prev_at_rest, now_at_rest) ==
    restarted(entity, c, prev_at_rest, now_at_rest, match_state(entity, c, now_at_rest, at_target(c)))

moved(entity, c, prev_at_rest) == state_machine(entity, c, prev_at_rest, is_at_rest(c.sprite, REST_VELOCITY_THRESHOLD))

\* The loop body for an entity that is not skipped.
animate(entity, c, dt) ==
    moved(entity, with_transform(eased(update_axes(c, dt), distance(c.sprite, c.target))),
          is_at_rest(c.sprite, REST_VELOCITY_THRESHOLD))

\* The loop skipping nothing for a paused group.
skipped_unless_grouped(c, groups) == c.paused

\* The two `continue`s of the loop: AnimationPaused on the entity, or its
\* AnimationGroup paused in the PausedGroups resource.
skipped(c, groups) ==
    \/ c.paused
    \/ c.group.some /\ groups.some /\ PausedGroups_is_paused(groups.value, c.group.value)

\* The loop body: the entity's components and the events sent for it.
for_entity(entity, c, groups, dt) == IF skipped(c, groups) THEN [c |-> c, sent |-> <<>>] ELSE animate(entity, c, dt)

\* The system running although GlobalAnimationPaused is there.
returns_early_unpaused(paused_globally, dt) == FLt(dt, Dec(1, -4)) \/ FGt(dt, Dec(1, -1))

\* The delta check rejecting its own bounds: `<=` and `>=` for `<` and `>`.
returns_early_at_bounds(paused_globally, dt) == paused_globally \/ FLe(dt, Dec(1, -4)) \/ FGe(dt, Dec(1, -1))

\* The two early returns: the global pause, and a frame delta out of range.
returns_early(paused_globally, dt) == paused_globally \/ FLt(dt, Dec(1, -4)) \/ FGt(dt, Dec(1, -1))

\* natura_animation_system: every entity's components after the run and
\* the events the run sent, by entity.
natura_animation_system(entities, paused_globally, groups, dt) ==
    IF returns_early(paused_globally, dt)
    THEN [e \in DOMAIN entities |-> [c |-> entities[e], sent |-> <<>>]]
    ELSE [e \in DOMAIN entities |-> for_entity(e, entities[e], groups, dt)]

\* ------------------------------------------------------------------------
\* f64 at the regime boundary: fixed point with sixteen decimals
\*
\* At damping ratio 1 + 1e-6 the over-damped derivation subtracts e1 and e2,
\* which agree in their first four digits.  The 53 binary digits of an f64
\* leave the difference some twelve digits; the nine decimal digits of the
\* numbers above leave it five, too few to compare coefficients to 1e-6.
\* The derivations are therefore repeated on numbers s * n / 10^16, n held
\* in limbs of four decimal digits, each operation correct to a unit of the
\* sixteenth decimal: the precision f64 has for the values that occur
\* (angular frequencies from 1 to 30, time steps from 1/120 to 1/30).
\* ------------------------------------------------------------------------

WBase == 10000

\* The limbs after the point.
WPoint == 4

NatZero == <<0, 0, 0, 0, 0, 0>>

Limb(a, i) == IF i >= 1 /\ i <= Len(a) THEN a[i] ELSE 0

\* The limbs of the columns v, the carry c brought into column i.
RECURSIVE NatCarry(_, _, _)
NatCarry(v, i, c) ==
    IF i > Len(v) THEN << >>
    ELSE <<(v[i] + c) % WBase>> \o NatCarry(v, i + 1, (v[i] + c) \div WBase)

NatAdd(a, b) == NatCarry([i \in 1..Len(a) |-> a[i] + b[i]], 1, 0)

\* a - b for a >= b
NatSub(a, b) == NatCarry([i \in 1..Len(a) |-> a[i] - b[i]], 1, 0)

RECURSIVE NatCmp(_, _, _)
NatCmp(a, b, i) == IF i = 0 THEN 0 ELSE IF a[i] # b[i] THEN Cmp(a[i], b[i]) ELSE NatCmp(a, b, i - 1)

\* Column k of the product of two numbers of six limbs.
NatColumn(a, b, k) ==
    Limb(a, 1) * Limb(b, k) + Limb(a, 2) * Limb(b, k - 1) + Limb(a, 3) * Limb(b, k - 2)
    + Limb(a, 4) * Limb(b, k - 3) + Limb(a, 5) * Limb(b, k - 4) + Limb(a, 6) * Limb(b, k - 5)

NatMul(a, b) == NatCarry([k \in 1..(2 * Len(a) - 1) |-> NatColumn(a, b, k)], 1, 0)

\* The double-length product p brought back to sixteen decimals, rounded.
NatRound(p) ==
    NatCarry([i \in 1..Len(NatZero) |-> p[WPoint + i] + IF i = 1 /\ 2 * p[WPoint] >= WBase THEN 1 ELSE 0], 1, 0)

\* a \div k for 0 < k <= 200000, from the most significant limb down.
RECURSIVE NatDivInt(_, _, _, _)
NatDivInt(a, k, i, rem) ==
    IF i = 0 THEN << >>
    ELSE NatDivInt(a, k, i - 1, (rem * WBase + a[i]) % k) \o <<(rem * WBase + a[i]) \div k>>

WNum(s, n) == IF n = NatZero THEN [s |-> 1, n |-> NatZero] ELSE [s |-> s, n |-> n]

\* The integer i, |i| < 10^8.
WInt(i) == WNum(IF i < 0 THEN -1 ELSE 1, <<0, 0, 0, 0, Abs(i) % WBase, Abs(i) \div WBase>>)

WNeg(x) == WNum(-x.s, x.n)

WAddMag(x, y, c) == IF c >= 0 THEN WNum(x.s, NatSub(x.n, y.n)) ELSE WNum(y.s, NatSub(y.n, x.n))

WAdd(x, y) == IF x.s = y.s THEN WNum(x.s, NatAdd(x.n, y.n)) ELSE WAddMag(x, y, NatCmp(x.n, y.n, Len(x.n)))

WSub(x, y) == WAdd(x, WNeg(y))

WMul(x, y) == IF x.s = y.s THEN WNum(1, NatRound(NatMul(x.n, y.n))) ELSE WNum(-1, NatRound(NatMul(x.n, y.n)))

WDivInt(x, k) == WNum(x.s, NatDivInt(x.n, k, Len(x.n), 0))

WAbs(x) == [s |-> 1, n |-> x.n]

WLt(x, y) == WSub(x, y).s < 0

WideTerms == 20

WideIterations == 8

\* The Taylor series of exp: t is the term of degree k, and the series ends
\* where a term no longer changes the sum.
RECURSIVE WExpSeries(_, _, _, _)
WExpNext(x, t, sum, next, k) == IF next = sum THEN sum ELSE WExpSeries(x, WDivInt(WMul(t, x), k + 1), next, k + 1)

WExpSeries(x, t, sum, k) == IF k > WideTerms THEN sum ELSE WExpNext(x, t, sum, WAdd(sum, t), k)

WSquare(x) == WMul(x, x)

\* f64::exp for arguments within 1 of 0: the series at a quarter of the
\* argument, squared twice.
WExpQuarter(q) == WSquare(WSquare(WExpSeries(q, q, WInt(1), 1)))

WExp(x) == WExpQuarter(WDivInt(x, 4))

\* f64::cos and f64::sin by their Taylor series in the same way.
RECURSIVE WTrigSeries(_, _, _, _)
WTrigNext(x2, t, sum, next, k) ==
    IF next = sum THEN sum ELSE WTrigSeries(x2, WNeg(WDivInt(WMul(t, x2), (k + 1) * (k + 2))), next, k + 2)

WTrigSeries(x2, t, sum, k) == IF k > WideTerms THEN sum ELSE WTrigNext(x2, t, sum, WAdd(sum, t), k)

WCos(x) == WTrigSeries(WSquare(x), WNeg(WDivInt(WSquare(x), 2)), WInt(1), 2)

WSin(x) == WTrigSeries(WSquare(x), WNeg(WDivInt(WMul(x, WSquare(x)), 6)), x, 3)

\* A first guess of 1 / d from the leading limb of d, never above 1 / d.
WRecipSeed(d) ==
    IF d.n[6] > 0 THEN WDivInt(WDivInt(WInt(1), WBase), d.n[6] + 1)
    ELSE IF d.n[5] > 0 THEN WDivInt(WInt(1), d.n[5] + 1)
    ELSE WDivInt(WInt(WBase), d.n[4] + 1)

\* 1 / d for d >= 1e-4, by Newton's iteration x <- x (2 - d x).
RECURSIVE WRecipFrom(_, _, _)
WRecipNext(d, x, next, k) == IF next = x THEN x ELSE WRecipFrom(d, next, k - 1)

WRecipFrom(d, x, k) == IF k = 0 THEN x ELSE WRecipNext(d, x, WMul(x, WSub(WInt(2), WMul(d, x))), k)

WRecip(d) == WRecipFrom(d, WRecipSeed(d), WideIterations)

\* The least r with r * r > t, for a limb t.
RootAbove(t) == CHOOSE r \in 1..100 : r * r > t /\ (r - 1) * (r - 1) <= t

\* A first guess of 1 / sqrt(a) from the leading limb of a, never above it.
WInvSqrtSeed(a) ==
    IF a.n[6] > 0 THEN WDivInt(WInt(1), 100 * RootAbove(a.n[6]))
    ELSE IF a.n[5] > 0 THEN WDivInt(WInt(1), RootAbove(a.n[5]))
    ELSE IF a.n[4] > 0 THEN WDivInt(WInt(100), RootAbove(a.n[4]))
    ELSE WDivInt(WInt(WBase), RootAbove(a.n[3]))

\* f64::sqrt for a >= 1e-8: a / sqrt(a), the inverse root by Newton's
\* iteration y <- y (3 - a y^2) / 2.
RECURSIVE WInvSqrtFrom(_, _, _)
WInvSqrtNext(a, y, next, k) == IF next = y THEN y ELSE WInvSqrtFrom(a, next, k - 1)

WInvSqrtFrom(a, y, k) ==
    IF k = 0 THEN y
    ELSE WInvSqrtNext(a, y, WDivInt(WMul(y, WSub(WInt(3), WMul(a, WSquare(y)))), 2), k)

WSqrt(a) == WMul(a, WInvSqrtFrom(a, WInvSqrtSeed(a), WideIterations))

\* calculate_critically_damped on these numbers.
critically_damped_wide_coefs(angular_frequency, exp_term, time_exp, time_exp_freq) ==
    [pos_pos_coef |-> WAdd(time_exp_freq, exp_term),
     pos_vel_coef |-> time_exp,
     vel_pos_coef |-> WMul(WNeg(angular_frequency), time_exp_freq),
     vel_vel_coef |-> WAdd(WNeg(time_exp_freq), exp_term)]

critically_damped_wide_time_exp(angular_frequency, exp_term, time_exp) ==
    critically_damped_wide_coefs(angular_frequency, exp_term, time_exp, WMul(time_exp, angular_frequency))

critically_damped_wide_exp(delta_time, angular_frequency, exp_term) ==
    critically_damped_wide_time_exp(angular_frequency, exp_term, WMul(delta_time, exp_term))

calculate_critically_damped_wide(delta_time, angular_frequency) ==
    critically_damped_wide_exp(delta_time, angular_frequency, WExp(WMul(WNeg(angular_frequency), delta_time)))

\* calculate_under_damped on these numbers.
under_damped_wide_coefs(omega_zeta, alpha, inv_alpha, exp_sin, exp_cos, exp_omega_zeta_sin_over_alpha) ==
    [pos_pos_coef |-> WAdd(exp_cos, exp_omega_zeta_sin_over_alpha),
     pos_vel_coef |-> WMul(exp_sin, inv_alpha),
     vel_pos_coef |-> WSub(WMul(WNeg(exp_sin), alpha), WMul(omega_zeta, exp_omega_zeta_sin_over_alpha)),
     vel_vel_coef |-> WSub(exp_cos, exp_omega_zeta_sin_over_alpha)]

under_damped_wide_products(omega_zeta, alpha, exp_term, cos_term, sin_term, inv_alpha) ==
    under_damped_wide_coefs(omega_zeta, alpha, inv_alpha, WMul(exp_term, sin_term), WMul(exp_term, cos_term),
                            WMul(WMul(WMul(exp_term, omega_zeta), sin_term), inv_alpha))

under_damped_wide_terms(delta_time, omega_zeta, alpha) ==
    under_damped_wide_products(omega_zeta, alpha, WExp(WMul(WNeg(omega_zeta), delta_time)),
                               WCos(WMul(alpha, delta_time)), WSin(WMul(alpha, delta_time)), WRecip(alpha))

calculate_under_damped_wide(delta_time, angular_frequency, damping_ratio) ==
    under_damped_wide_terms(delta_time, WMul(angular_frequency, damping_ratio),
                            WMul(angular_frequency, WSqrt(WSub(WInt(1), WMul(damping_ratio, damping_ratio)))))

\* calculate_over_damped on these numbers.
over_damped_wide_coefs(z2, e2, e1_over_two_zb, e2_over_two_zb, z1e1_over_two_zb, z2e2_over_two_zb) ==
    [pos_pos_coef |-> WAdd(WSub(WMul(e1_over_two_zb, z2), z2e2_over_two_zb), e2),
     pos_vel_coef |-> WAdd(WNeg(e1_over_two_zb), e2_over_two_zb),
     vel_pos_coef |-> WMul(WAdd(WSub(z1e1_over_two_zb, z2e2_over_two_zb), e2), z2),
     vel_vel_coef |-> WAdd(WNeg(z1e1_over_two_zb), z2e2_over_two_zb)]

over_damped_wide_products(z1, z2, e2, e1_over_two_zb, e2_over_two_zb) ==
    over_damped_wide_coefs(z2, e2, e1_over_two_zb, e2_over_two_zb, WMul(z1, e1_over_two_zb), WMul(z2, e2_over_two_zb))

over_damped_wide_scaled(z1, z2, e1, e2, inv_two_zb) ==
    over_damped_wide_products(z1, z2, e2, WMul(e1, inv_two_zb), WMul(e2, inv_two_zb))

over_damped_wide_exps(delta_time, zb, z1, z2) ==
    over_damped_wide_scaled(z1, z2, WExp(WMul(z1, delta_time)), WExp(WMul(z2, delta_time)), WRecip(WMul(WInt(2), zb)))

over_damped_wide_roots_swapped(delta_time, za, zb) == over_damped_wide_exps(delta_time, zb, WAdd(za, zb), WSub(za, zb))

over_damped_wide_roots(delta_time, za, zb) == over_damped_wide_exps(delta_time, zb, WSub(za, zb), WAdd(za, zb))

calculate_over_damped_wide(delta_time, angular_frequency, damping_ratio) ==
    over_damped_wide_roots(delta_time, WMul(WNeg(angular_frequency), damping_ratio),
                           WMul(angular_frequency, WSqrt(WSub(WMul(damping_ratio, damping_ratio), WInt(1)))))

WEpsilon == WDivInt(WDivInt(WInt(1), WBase), WBase)

WMax(x, y) == IF WLt(x, y) THEN y ELSE x

\* The derivation Spring::new takes for the clamped arguments.
new_wide_branch(angular_frequency, damping_ratio) ==
    IF WLt(angular_frequency, WEpsilon) THEN "identity"
    ELSE IF WLt(WAdd(WInt(1), WEpsilon), damping_ratio) THEN "over_damped"
    ELSE IF WLt(damping_ratio, WSub(WInt(1), WEpsilon)) THEN "under_damped"
    ELSE "critically_damped"

new_wide_spring(delta_time, angular_frequency, damping_ratio, taken) ==
    [branch |-> taken,
     spring |->
        CASE taken = "identity" ->
                [pos_pos_coef |-> WInt(1), pos_vel_coef |-> WInt(0), vel_pos_coef |-> WInt(0), vel_vel_coef |-> WInt(1)]
          [] taken = "over_damped" -> calculate_over_damped_wide(delta_time, angular_frequency, damping_ratio)
          [] taken = "under_damped" -> calculate_under_damped_wide(delta_time, angular_frequency, damping_ratio)
          [] OTHER -> calculate_critically_damped_wide(delta_time, angular_frequency)]

new_wide_clamped(delta_time, angular_frequency, damping_ratio) ==
    new_wide_spring(delta_time, angular_frequency, damping_ratio, new_wide_branch(angular_frequency, damping_ratio))

\* Spring::new on these numbers, `branch` the derivation taken.
Spring_new_wide(delta_time, angular_frequency, damping_ratio) ==
    new_wide_clamped(delta_time, WMax(WInt(0), angular_frequency), WMax(WInt(0), damping_ratio))

\* ------------------------------------------------------------------------
\* State
\* ------------------------------------------------------------------------

VARIABLES
    \* natura-samples main: one Spring shared by the two axes of a sprite
    pc,                 \* "start" before Spring::new, "ready" after
    delta_time,         \* the three arguments of Spring::new
    angular_frequency,
    damping_ratio,
    spring,             \* the Spring
    branch,             \* the derivation Spring::new took
    sprite,             \* x, x_velocity, y, y_velocity
    own,                \* each axis run with a Spring of its own, for reference
    last,               \* the most recent Spring::update call and its result
    updates,            \* Spring::update calls so far
    \* test_spring_converges_to_target
    natura_spring,      \* the NaturaSpring component
    test,               \* the loop's pos, vel and iteration count
    \* projectile
    projectile,         \* the Projectile
    calls,              \* Projectile::update calls so far
    returned,           \* the Point the last call returned
    \* fps
    fps_n,              \* the argument
    fps_out,            \* the outcome of the call, None before it
    \* natura_animation_system
    world,              \* the components of every entity
    global_pause,       \* whether the GlobalAnimationPaused resource is there
    paused_groups,      \* the PausedGroups resource
    events,             \* the events the latest run sent, by entity
    frames,             \* runs of the system so far
    controls,           \* writes by the application so far
    retargeted,         \* entities whose target changed since they last moved
    held,               \* every sprite as GlobalAnimationPaused found it
    emitted,            \* the latest event's kind and the events sent, by entity
    \* the coefficients on both sides of the regime boundary
    boundary,
    \* calls of EasingCurve::apply and of NaturaSpring::update
    easing_call,        \* the curve, the argument and the value returned
    component           \* a NaturaSpring, its latest update call and result

spring_vars == <<pc, delta_time, angular_frequency, damping_ratio, spring,
                 branch, sprite, own, last, updates>>

test_vars == <<natura_spring, test>>

projectile_vars == <<projectile, calls, returned>>

fps_vars == <<fps_n, fps_out>>

anim_vars == <<world, global_pause, paused_groups, events, frames, controls, retargeted, held, emitted>>

boundary_vars == <<boundary>>

call_vars == <<easing_call, component>>

vars == <<spring_vars, test_vars, projectile_vars, fps_vars, anim_vars, boundary_vars, call_vars>>

\* ------------------------------------------------------------------------
\* Inputs and bounds
\* ------------------------------------------------------------------------

FPS60 == U64(0, 0, 0, 60)

DeltaTimes == {fps(FPS60).value, Dec(1, -1)}

AngularFrequencies == {FInt(-1), Zero, Dec(5, -9), EPSILON, FInt(6)}

DampingRatios ==
    {Dec(-5, -1), Zero, Dec(5, -1),
     Dec(999999989, -9),            \* just below 1 - EPSILON
     Dec(99999999, -8),             \* 1 - EPSILON
     Dec(999999995, -9),            \* between 1 - EPSILON and 1
     One,
     Dec(100000001, -8),            \* 1 + EPSILON
     Dec(100000002, -8),            \* just above 1 + EPSILON
     FInt(2)}

Sprite_default ==
    [x |-> Zero, x_velocity |-> Zero, y |-> Zero, y_velocity |-> Zero]

StartSprites ==
    {Sprite_default,
     [x |-> Dec(123456789, -8), x_velocity |-> Dec(5, -1),
      y |-> Dec(-75, -1), y_velocity |-> Zero]}

TARGET_X == FInt(50)

TARGET_Y == FInt(100)

Targets == {TARGET_X, TARGET_Y, Zero}

MaxUpdates == 3

NoCall == [called |-> FALSE]

\* ------------------------------------------------------------------------
\* The spring program (natura-samples main, with the order of the calls and
\* their targets left open)
\* ------------------------------------------------------------------------

SpringIdle ==
    /\ pc = "off"
    /\ delta_time = Zero
    /\ angular_frequency = Zero
    /\ damping_ratio = Zero
    /\ spring = Spring_default
    /\ branch = "none"
    /\ sprite = Sprite_default
    /\ own = None
    /\ last = NoCall
    /\ updates = 0

TestIdle ==
    /\ natura_spring = None
    /\ test = None

ProjectileIdle ==
    /\ projectile = None
    /\ calls = 0
    /\ returned = None

FpsIdle ==
    /\ fps_n = U64(0, 0, 0, 0)
    /\ fps_out = None

AnimIdle ==
    /\ world = << >>
    /\ global_pause = FALSE
    /\ paused_groups = None
    /\ events = << >>
    /\ frames = 0
    /\ controls = 0
    /\ retargeted = {}
    /\ held = None
    /\ emitted = << >>

BoundaryIdle == boundary = None

CallIdle == easing_call = None /\ component = None

SpringInit ==
    /\ pc = "start"
    /\ delta_time \in DeltaTimes
    /\ angular_frequency \in AngularFrequencies
    /\ damping_ratio \in DampingRatios
    /\ spring = Spring_default
    /\ branch = "none"
    /\ sprite \in StartSprites
    /\ own = None
    /\ last = NoCall
    /\ updates = 0

NewWith(made) ==
    /\ spring' = made.spring
    /\ branch' = made.branch
    /\ own' = Some([made |-> made.spring,
                    x |-> [spring |-> made.spring, pos |-> sprite.x,
                           vel |-> sprite.x_velocity, n |-> 0],
                    y |-> [spring |-> made.spring, pos |-> sprite.y,
                           vel |-> sprite.y_velocity, n |-> 0]])

\* let mut spring = Spring::new(fps, 6.0, 0.5);
New ==
    /\ pc = "start"
    /\ NewWith(Spring_new(delta_time, angular_frequency, damping_ratio))
    /\ pc' = "ready"
    /\ UNCHANGED <<delta_time, angular_frequency, damping_ratio, sprite, last,
                   updates>>

Called(self, pos, vel, equilibrium_pos, r) ==
    [called |-> TRUE, self |-> self, pos |-> pos, vel |-> vel,
     equilibrium_pos |-> equilibrium_pos,
     new_pos |-> r.pos, new_vel |-> r.vel]

OwnResult(r, n) == [spring |-> r.self, pos |-> r.pos, vel |-> r.vel, n |-> n]

\* The same call on a Spring nothing else uses; n counts the axis' calls.
OwnStep(o, equilibrium_pos) ==
    OwnResult(Spring_update(o.spring, o.pos, o.vel, equilibrium_pos), o.n + 1)

UpdateXWith(equilibrium_pos, r) ==
    /\ spring' = r.self
    /\ sprite' = [sprite EXCEPT !.x = r.pos, !.x_velocity = r.vel]
    /\ last' = Called(spring, sprite.x, sprite.x_velocity, equilibrium_pos, r)

\* let (x, x_velocity) = spring.update(sprite.x, sprite.x_velocity, target);
UpdateX(equilibrium_pos) ==
    /\ pc = "ready"
    /\ updates < MaxUpdates
    /\ UpdateXWith(equilibrium_pos,
                   Spring_update(spring, sprite.x, sprite.x_velocity,
                                 equilibrium_pos))
    /\ own' = [own EXCEPT !.value.x = OwnStep(own.value.x, equilibrium_pos)]
    /\ updates' = updates + 1
    /\ UNCHANGED <<pc, delta_time, angular_frequency, damping_ratio, branch>>

UpdateYWith(equilibrium_pos, r) ==
    /\ spring' = r.self
    /\ sprite' = [sprite EXCEPT !.y = r.pos, !.y_velocity = r.vel]
    /\ last' = Called(spring, sprite.y, sprite.y_velocity, equilibrium_pos, r)

\* let (y, y_velocity) = spring.update(sprite.y, sprite.y_velocity, target);
UpdateY(equilibrium_pos) ==
    /\ pc = "ready"
    /\ updates < MaxUpdates
    /\ UpdateYWith(equilibrium_pos,
                   Spring_update(spring, sprite.y, sprite.y_velocity,
                                 equilibrium_pos))
    /\ own' = [own EXCEPT !.value.y = OwnStep(own.value.y, equilibrium_pos)]
    /\ updates' = updates + 1
    /\ UNCHANGED <<pc, delta_time, angular_frequency, damping_ratio, branch>>

Init == SpringInit /\ TestIdle /\ ProjectileIdle /\ FpsIdle /\ AnimIdle /\ BoundaryIdle /\ CallIdle

Next ==
    \/ New /\ UNCHANGED <<test_vars, projectile_vars, fps_vars, anim_vars, boundary_vars, call_vars>>
    \/ \E t \in Targets :
          UpdateX(t) /\ UNCHANGED <<test_vars, projectile_vars, fps_vars, anim_vars, boundary_vars, call_vars>>
    \/ \E t \in Targets :
          UpdateY(t) /\ UNCHANGED <<test_vars, projectile_vars, fps_vars, anim_vars, boundary_vars, call_vars>>

Spec == Init /\ [][Next]_vars

\* ------------------------------------------------------------------------
\* Properties of the spring program
\* ------------------------------------------------------------------------

C2_RegimeByDampingRatio ==
    (pc = "ready" /\ FGe(FMax(Zero, angular_frequency), EPSILON)) =>
        /\ branch = "over_damped" <=>
              FGt(FMax(Zero, damping_ratio), Dec(100000001, -8))
        /\ branch = "under_damped" <=>
              FLt(FMax(Zero, damping_ratio), Dec(99999999, -8))
        /\ branch = "critically_damped" <=>
              /\ FGe(FMax(Zero, damping_ratio), Dec(99999999, -8))
              /\ FLe(FMax(Zero, damping_ratio), Dec(100000001, -8))
        /\ updates = 0 =>
              spring =
                 CASE branch = "over_damped" ->
                        calculate_over_damped(delta_time, angular_frequency,
                                              damping_ratio)
                   [] branch = "under_damped" ->
                        calculate_under_damped(delta_time, angular_frequency,
                                               FMax(Zero, damping_ratio))
                   [] OTHER ->
                        calculate_critically_damped(delta_time,
                                                    angular_frequency)

C2_Witness ==
    /\ pc = "ready"
    /\ angular_frequency = EPSILON
    /\ damping_ratio = Dec(100000001, -8)
    /\ branch = "critically_damped"

\* C3: Spring::update returns new_pos = (pos - eq) * pos_pos + vel * pos_vel
\* + eq and new_vel = (pos - eq) * vel_pos + vel * vel_vel: the equilibrium
\* is subtracted before the map and re-added to the position only.
C3_UpdateFormula ==
    last.called =>
        /\ last.new_pos =
              FAdd(FAdd(FMul(FSub(last.pos, last.equilibrium_pos),
                             last.self.pos_pos_coef),
                        FMul(last.vel, last.self.pos_vel_coef)),
                   last.equilibrium_pos)
        /\ last.new_vel =
              FAdd(FMul(FSub(last.pos, last.equilibrium_pos),
                        last.self.vel_pos_coef),
                   FMul(last.vel, last.self.vel_vel_coef))

C3_Witness ==
    /\ last.called
    /\ branch = "under_damped"
    /\ last.equilibrium_pos = TARGET_Y
    /\ last.vel # Zero
    /\ last.new_vel # Zero

\* C4: Spring::new accepts negative inputs: with a negative angular
\* frequency it returns the identity coefficients, and with a negative
\* damping ratio the coefficients it returns for a damping ratio of 0.
C4_NegativeInputsFloored ==
    (pc = "ready" /\ updates = 0) =>
        /\ FLt(angular_frequency, Zero) => spring = identity_coefficients
        /\ FLt(damping_ratio, Zero) =>
              spring = Spring_new(delta_time, angular_frequency, Zero).spring

C4_Witness ==
    /\ pc = "ready"
    /\ FLt(damping_ratio, Zero)
    /\ angular_frequency = FInt(6)
    /\ branch = "under_damped"
    /\ spring # identity_coefficients

\* C9: no update changes the Spring's coefficients, and each axis driven
\* through the shared Spring has the position and velocity it has when
\* driven through a Spring of its own, however the calls interleave.
C9_SharedSpringUnchanged ==
    pc = "ready" =>
        /\ spring = own.value.made
        /\ own.value.x.spring = own.value.made
        /\ own.value.y.spring = own.value.made
        /\ sprite.x = own.value.x.pos
        /\ sprite.x_velocity = own.value.x.vel
        /\ sprite.y = own.value.y.pos
        /\ sprite.y_velocity = own.value.y.vel

C9_Witness ==
    /\ pc = "ready"
    /\ branch = "over_damped"
    /\ own.value.x.n >= 1
    /\ own.value.y.n >= 1
    /\ sprite.x # Zero
    /\ sprite.y # Zero

\* ------------------------------------------------------------------------
\* The projectile program (tests::test_update_gravity without its
\* assertions, and a second launch under GRAVITY)
\* ------------------------------------------------------------------------

\* `let fps = 60;` and the range `1..fps` of the inner loop, which runs
\* fps - 1 times.
TestFps == 60

UpdatesPerBlock == TestFps - 1

\* `coordinates`: the point the test expects after each block of updates.
coordinates ==
    <<Vec3(FInt(5), Dec(982, -2), Zero),
      Vec3(FInt(10), Dec(2946, -2), Zero),
      Vec3(FInt(15), Dec(5890, -2), Zero),
      Vec3(FInt(20), Dec(9815, -2), Zero),
      Vec3(FInt(25), Dec(14722, -2), Zero),
      Vec3(FInt(30), Dec(20609, -2), Zero),
      Vec3(FInt(35), Dec(27477, -2), Zero)>>

MaxCalls == Len(coordinates) * UpdatesPerBlock

\* The projectile test_update_gravity makes.
TestProjectile ==
    Projectile_new(fps(U64(0, 0, 0, TestFps)).value, Vec3(Zero, Zero, Zero),
                   Vec3(FInt(5), FInt(5), Zero), Vec3(Zero, Dec(981, -2), Zero))

Launches ==
    {TestProjectile,
     Projectile_new(Dec(1, -1), Vec3(FInt(1), FInt(20), Dec(-5, -1)),
                    Vec3(FInt(3), FInt(4), FInt(-2)), GRAVITY)}

ProjectileInit ==
    /\ projectile \in {Some(l) : l \in Launches}
    /\ calls = 0
    /\ returned = None

\* pos = projectile.update();
Update ==
    /\ projectile.some
    /\ calls < MaxCalls
    /\ projectile' = Some(Projectile_update(projectile.value))
    /\ returned' = [some |-> TRUE, by |-> "update",
                    value |-> Projectile_update(projectile.value).pos]
    /\ calls' = calls + 1

\* projectile.position()
Position ==
    /\ projectile.some
    /\ returned' = [some |-> TRUE, by |-> "position",
                    value |-> Projectile_position(projectile.value)]
    /\ UNCHANGED <<projectile, calls>>

InitProjectile == SpringIdle /\ TestIdle /\ ProjectileInit /\ FpsIdle /\ AnimIdle /\ BoundaryIdle /\ CallIdle

NextProjectile ==
    \/ Update /\ UNCHANGED <<spring_vars, test_vars, fps_vars, anim_vars, boundary_vars, call_vars>>
    \/ Position /\ UNCHANGED <<spring_vars, test_vars, fps_vars, anim_vars, boundary_vars, call_vars>>

SpecProjectile == InitProjectile /\ [][NextProjectile]_vars

\* C5: every Projectile::update advances the position on each axis by the
\* velocity the projectile had before the call times delta_time, and the
\* velocity by the acceleration times delta_time.
C5_PositionBeforeVelocity ==
    [][calls' = calls + 1 =>
         /\ projectile'.value.pos =
               Vec3(FAdd(projectile.value.pos.x,
                         FMul(projectile.value.vel.x,
                              projectile.value.delta_time)),
                    FAdd(projectile.value.pos.y,
                         FMul(projectile.value.vel.y,
                              projectile.value.delta_time)),
                    FAdd(projectile.value.pos.z,
                         FMul(projectile.value.vel.z,
                              projectile.value.delta_time)))
         /\ projectile'.value.vel =
               Vec3(FAdd(projectile.value.vel.x,
                         FMul(projectile.value.acc.x,
                              projectile.value.delta_time)),
                    FAdd(projectile.value.vel.y,
                         FMul(projectile.value.acc.y,
                              projectile.value.delta_time)),
                    FAdd(projectile.value.vel.z,
                         FMul(projectile.value.acc.z,
                              projectile.value.delta_time)))
         /\ projectile'.value.acc = projectile.value.acc
         /\ projectile'.value.delta_time = projectile.value.delta_time
         /\ returned'.value = projectile'.value.pos]_vars

C5_Witness ==
    /\ calls = 3
    /\ returned.some
    /\ returned.by = "update"
    /\ projectile.value.acc = GRAVITY
    /\ projectile.value.vel.y # FInt(4)
    /\ returned.value = projectile.value.pos

\* C15: Projectile::position changes no field and returns the position the
\* most recent update returned (the initial position when there has been no
\* update); Projectile::update changes only the position and the velocity,
\* never the acceleration or the time step.
C15_PositionReadsUpdateWrites ==
    [][/\ (calls' = calls /\ returned'.by = "position") =>
             /\ projectile' = projectile
             /\ returned'.value = (IF returned.some THEN returned.value
                                                    ELSE projectile.value.pos)
             /\ (calls = 0 => \E l \in Launches : returned'.value = l.pos)
       /\ calls' = calls + 1 =>
             /\ projectile'.value.acc = projectile.value.acc
             /\ projectile'.value.delta_time = projectile.value.delta_time
             /\ returned'.by = "update"]_vars

\* position() called after an update that moved the projectile.
C15_Witness ==
    /\ calls = 2
    /\ returned.some
    /\ returned.by = "position"
    /\ returned.value = projectile.value.pos
    /\ \A l \in Launches : returned.value # l.pos

\* C6 as stated: the test's projectile is, after each block of 59 updates,
\* within 1e-2 of the next reference point on x and on y.
C6_ReferenceTrajectory ==
    \A k \in 1 .. Len(coordinates) :
        (/\ projectile.some
         /\ projectile.value.acc = TestProjectile.acc
         /\ projectile.value.delta_time = TestProjectile.delta_time
         /\ calls = k * UpdatesPerBlock) =>
            /\ FLe(FAbs(FSub(projectile.value.pos.x, coordinates[k].x)),
                   Dec(1, -2))
            /\ FLe(FAbs(FSub(projectile.value.pos.y, coordinates[k].y)),
                   Dec(1, -2))

\* The test's projectile after its first block of updates.
C6_Witness ==
    /\ projectile.some
    /\ projectile.value.acc = TestProjectile.acc
    /\ projectile.value.delta_time = TestProjectile.delta_time
    /\ calls = UpdatesPerBlock
    /\ FLt(projectile.value.pos.x, Dec(492, -2))
    /\ FLt(projectile.value.pos.y, Dec(958, -2))

\* ------------------------------------------------------------------------
\* A call of fps
\* ------------------------------------------------------------------------

\* The u64 arguments tried: 0, small frame rates, values past one second
\* of nanoseconds, 2^31, 2^32 - 1, and the same with bits above the low 32.
HighWords == {0, 1, Word - 1}

LowWords == {0, 1, 60, 1000, 51712, Word - 1}

\* 15258 * 2^16 + 51712 = 10^9.
MidWords == {0, 1, 15258, 15259, Word \div 2, Word - 1}

FpsArguments ==
    {U64(w3, w2, w1, w0) : w3 \in {0, 1}, w2 \in HighWords,
                           w1 \in MidWords, w0 \in LowWords}

IsZero(n) == n.w3 = 0 /\ n.w2 = 0 /\ n.w1 = 0 /\ n.w0 = 0

FpsInit ==
    /\ fps_n \in FpsArguments
    /\ fps_out = None

\* let time = fps(n);  A call that panics returns nothing.
CallFps ==
    /\ ~fps_out.some
    /\ fps_out' = Some(fps(fps_n))
    /\ UNCHANGED fps_n

InitFps == SpringIdle /\ TestIdle /\ ProjectileIdle /\ FpsInit /\ AnimIdle /\ BoundaryIdle /\ CallIdle

NextFps == CallFps /\ UNCHANGED <<spring_vars, test_vars, projectile_vars, anim_vars, boundary_vars, call_vars>>

SpecFps == InitFps /\ [][NextFps]_vars

\* C7 (as the code has it): fps(0) fails; the integer division panics with
\* a zero divisor and the call returns no value.
C7_ZeroPanics ==
    (fps_out.some /\ IsZero(fps_n)) => fps_out.value.panicked

\* C7 as stated: fps(0) completes and returns a value.
C7_ZeroReturns ==
    (fps_out.some /\ IsZero(fps_n)) => ~fps_out.value.panicked

C7_Witness == fps_out.some /\ IsZero(fps_n)

\* C8 as stated: fps(n) completes for every n other than 0.
C8_OnlyZeroPanics ==
    (fps_out.some /\ ~IsZero(fps_n)) => ~fps_out.value.panicked

\* fps(2^32): a non-zero argument whose low 32 bits are zero.
C8_Witness ==
    /\ fps_out.some
    /\ fps_n = U64(0, 1, 0, 0)
    /\ fps_out.value.panicked

\* ------------------------------------------------------------------------
\* tests::test_spring_converges_to_target, without its assertion
\* ------------------------------------------------------------------------

\* `for _ in 0..300`
Iterations == 300

\* `let delta_seconds = 1.0 / 60.0;`
delta_seconds == FDiv(One, FInt(60))

target == FInt(100)

ConvergeInit ==
    /\ natura_spring = Some(NaturaSpring_new(FInt(6), Dec(7, -1)))
    /\ test = Some([pos |-> Zero, vel |-> Zero, i |-> 0])

Fed(r, i) == Some([pos |-> r.pos, vel |-> r.vel, i |-> i])

IterateWith(r) ==
    /\ natura_spring' = Some(r.self)
    /\ test' = Fed(r, test.value.i + 1)

\* let (new_pos, new_vel) = spring.update(pos, vel, target, delta_seconds);
\* pos = new_pos; vel = new_vel;
Iterate ==
    /\ test.some
    /\ test.value.i < Iterations
    /\ IterateWith(NaturaSpring_update(natura_spring.value, test.value.pos,
                                       test.value.vel, target, delta_seconds))

InitConverge == SpringIdle /\ ConvergeInit /\ ProjectileIdle /\ FpsIdle /\ AnimIdle /\ BoundaryIdle /\ CallIdle

NextConverge == Iterate /\ UNCHANGED <<spring_vars, projectile_vars, fps_vars, anim_vars, boundary_vars, call_vars>>

SpecConverge == InitConverge /\ [][NextConverge]_vars

\* C10: from position 0 and velocity 0, with target 100, angular frequency
\* 6.0, damping ratio 0.7 and time step 1/60, the position after 300
\* updates, each fed the one before's output, is less than 1.0 from 100.
C10_Converges ==
    (test.some /\ test.value.i = Iterations) =>
        FLt(FAbs(FSub(test.value.pos, target)), One)

C10_Witness ==
    /\ test.some
    /\ test.value.i = Iterations
    /\ natura_spring.value.cached_spring.some
    /\ test.value.pos # Zero

\* ------------------------------------------------------------------------
\* tests::test_under_damped_spring_oscillates and
\* tests::test_critically_damped_no_overshoot, without their assertions
\* ------------------------------------------------------------------------

\* `for _ in 0..120`
OscillateIterations == 120

\* The damping ratios of the no-overshoot runs: the test's 1.0, and ratios
\* above it, which Spring::new sends to the over-damped branch.
NoOvershootRatios == {One, Dec(15, -1), FInt(3)}

\* let mut pos = 0.0; let mut vel = 0.0; let mut max_pos = 0.0;
Simulation(n) == Some([pos |-> Zero, vel |-> Zero, max_pos |-> Zero, i |-> 0, n |-> n])

OscillateInit ==
    /\ natura_spring = Some(NaturaSpring_new(FInt(6), Dec(3, -1)))
    /\ test = Simulation(OscillateIterations)

NoOvershootInit ==
    /\ \E ratio \in NoOvershootRatios : natura_spring = Some(NaturaSpring_new(FInt(6), ratio))
    /\ test = Simulation(Iterations)

track_max_keeps_first(pos, max_pos) == max_pos

\* if pos > max_pos { max_pos = pos; }
track_max(pos, max_pos) == IF FGt(pos, max_pos) THEN pos ELSE max_pos

Tracked(r, t) == Some([pos |-> r.pos, vel |-> r.vel, max_pos |-> track_max(r.pos, t.max_pos), i |-> t.i + 1, n |-> t.n])

SimulateWith(r) ==
    /\ natura_spring' = Some(r.self)
    /\ test' = Tracked(r, test.value)

\* let (new_pos, new_vel) = spring.update(pos, vel, target, delta_seconds);
\* pos = new_pos; vel = new_vel; and the tracking of the maximum.
Simulate ==
    /\ test.some
    /\ test.value.i < test.value.n
    /\ SimulateWith(NaturaSpring_update(natura_spring.value, test.value.pos,
                                        test.value.vel, target, delta_seconds))

InitOscillate == SpringIdle /\ OscillateInit /\ ProjectileIdle /\ FpsIdle /\ AnimIdle /\ BoundaryIdle /\ CallIdle

NextSimulate == Simulate /\ UNCHANGED <<spring_vars, projectile_vars, fps_vars, anim_vars, boundary_vars, call_vars>>

SpecOscillate == InitOscillate /\ [][NextSimulate]_vars

InitNoOvershoot == SpringIdle /\ NoOvershootInit /\ ProjectileIdle /\ FpsIdle /\ AnimIdle /\ BoundaryIdle /\ CallIdle

SpecNoOvershoot == InitNoOvershoot /\ [][NextSimulate]_vars

\* C11: from position 0 and velocity 0, with target 100, angular frequency
\* 6.0, time step 1/60 and damping ratio 0.3, at least one of the first 120
\* successive updates yields a position strictly greater than 100: once the
\* 120 updates are done, the greatest position seen is above the target.
C11_Overshoots ==
    (test.some /\ test.value.i = OscillateIterations) =>
        FGt(test.value.max_pos, target)

C11_Witness ==
    /\ test.some
    /\ test.value.i = OscillateIterations
    /\ natura_spring.value.damping_ratio = Dec(3, -1)
    /\ FGt(test.value.max_pos, test.value.pos)

\* C12: with damping ratio 1.0 or greater (start at rest at 0, target 100,
\* angular frequency 6.0, time step 1/60), no position during 300
\* successive updates exceeds target + 0.5.
C12_NoOvershoot ==
    test.some =>
        /\ FLe(test.value.pos, FAdd(target, Half))
        /\ FLe(test.value.max_pos, FAdd(target, Half))

C12_Witness ==
    /\ test.some
    /\ test.value.i = Iterations
    /\ FGt(natura_spring.value.damping_ratio, One)
    /\ FGt(test.value.pos, FInt(50))

\* ------------------------------------------------------------------------
\* tests::test_natura_spring_update_at_target, for springs of every regime
\* and repeated
\* ------------------------------------------------------------------------

AtTargetUpdates == 3

AtTargetFrequencies == {Zero, Half, FInt(6)}

AtTargetEquilibria == {FInt(100), Zero, Dec(-75, -1), Dec(123456789, -6)}

\* spring.update(100.0, 0.0, 100.0, delta_seconds): the sprite starts on
\* the equilibrium with no velocity.
AtTargetInit ==
    /\ \E frequency \in AtTargetFrequencies, ratio \in DampingRatios : natura_spring = Some(NaturaSpring_new(frequency, ratio))
    /\ \E eq \in AtTargetEquilibria : test = Some([pos |-> eq, vel |-> Zero, i |-> 0, eq |-> eq])

AtTargetFed(r, t) == Some([pos |-> r.pos, vel |-> r.vel, i |-> t.i + 1, eq |-> t.eq])

UpdateAtTargetWith(r) ==
    /\ natura_spring' = Some(r.self)
    /\ test' = AtTargetFed(r, test.value)

UpdateAtTarget ==
    /\ test.some
    /\ test.value.i < AtTargetUpdates
    /\ UpdateAtTargetWith(NaturaSpring_update(natura_spring.value, test.value.pos,
                                              test.value.vel, test.value.eq, delta_seconds))

InitAtTarget == SpringIdle /\ AtTargetInit /\ ProjectileIdle /\ FpsIdle /\ AnimIdle /\ BoundaryIdle /\ CallIdle

NextAtTarget == UpdateAtTarget /\ UNCHANGED <<spring_vars, projectile_vars, fps_vars, anim_vars, boundary_vars, call_vars>>

SpecAtTarget == InitAtTarget /\ [][NextAtTarget]_vars

\* The regime Spring::new derives the component's coefficients by.
RegimeOf(self) == Spring_new(delta_seconds, self.angular_frequency, self.damping_ratio).branch

\* C13: the target is a fixed point. For a spring of any regime,
\* update(eq, 0, eq) returns (eq, 0), and the state stays exactly there
\* after any number of updates.
C13_TargetIsFixedPoint ==
    test.some => (test.value.pos = test.value.eq /\ test.value.vel = Zero)

C13_Witness ==
    /\ test.some
    /\ test.value.i = AtTargetUpdates
    /\ test.value.eq = FInt(100)
    /\ natura_spring.value.cached_spring.some
    /\ RegimeOf(natura_spring.value) = "under_damped"

\* ------------------------------------------------------------------------
\* Springs built on either side of critical damping
\* ------------------------------------------------------------------------

\* Angular frequencies, whole numbers of radians per second.
BoundaryFrequencies == {1, 2, 6, 10, 30}

\* Frames per second: the time step is one frame.
BoundaryRates == {30, 60, 120}

Millionth == WDivInt(WDivInt(WInt(1), 1000), 1000)

\* The damping ratios a spring is built with, by the side of the boundary.
BoundaryRatios ==
    [under |-> WSub(WInt(1), Millionth), critical |-> WInt(1), over |-> WAdd(WInt(1), Millionth)]

Sides == {"under", "critical", "over"}

BoundaryInit ==
    \E w \in BoundaryFrequencies, rate \in BoundaryRates :
        boundary = Some([angular_frequency |-> w, rate |-> rate, springs |-> [k \in Sides |-> None]])

\* let spring = Spring::new(1.0 / rate, angular_frequency, ratio), for the
\* ratio of side k.
NewSpring(k) ==
    /\ boundary.some
    /\ ~boundary.value.springs[k].some
    /\ boundary' = Some([boundary.value EXCEPT !.springs[k] =
                            Some(Spring_new_wide(WDivInt(WInt(1), boundary.value.rate),
                                                 WInt(boundary.value.angular_frequency), BoundaryRatios[k]))])

InitBoundary == SpringIdle /\ TestIdle /\ ProjectileIdle /\ FpsIdle /\ AnimIdle /\ BoundaryInit /\ CallIdle

NextBoundary ==
    \E k \in Sides : NewSpring(k) /\ UNCHANGED <<spring_vars, test_vars, projectile_vars, fps_vars, anim_vars, call_vars>>

SpecBoundary == InitBoundary /\ [][NextBoundary]_vars

Within(a, b, tolerance) == ~WLt(tolerance, WAbs(WSub(a, b)))

Agree(a, b) ==
    /\ Within(a.pos_pos_coef, b.pos_pos_coef, Millionth)
    /\ Within(a.pos_vel_coef, b.pos_vel_coef, Millionth)
    /\ Within(a.vel_pos_coef, b.vel_pos_coef, Millionth)
    /\ Within(a.vel_vel_coef, b.vel_vel_coef, Millionth)

\* The springs of side k and of critical damping are both built, each by
\* the derivation of its side.
Built(k) ==
    /\ boundary.some
    /\ boundary.value.springs[k].some
    /\ boundary.value.springs.critical.some

AgreesWithCritical(k) == Agree(boundary.value.springs[k].value.spring, boundary.value.springs.critical.value.spring)

MaxFrames == 6

MaxControls == 2

Entities == {1, 2}

Groups == {1, 2}

\* Time::delta_secs_f64() of a frame.
FrameDeltas == {Dec(1, -1)}

AnimTargets == {NaturaTarget_new(Dec(15, -2), Zero, Zero), NaturaTarget_new(One, FInt(2), Zero)}

\* commands.spawn((bundle, target, Transform::default(), AnimationGroup(g)))
Spawn(bundle, tgt, group_id) ==
    [sprite |-> bundle.sprite, spring |-> bundle.spring, state |-> bundle.state,
     easing |-> Some(bundle.easing), target |-> tgt,
     transform |-> Vec3(Zero, Zero, Zero), group |-> Some(group_id), paused |-> FALSE]

NoEvents == [e \in Entities |-> << >>]

\* No event has been sent for any entity yet.
NoneEmitted == [e \in Entities |-> [kind |-> "none", n |-> 0]]

\* The kind of the latest event sent for an entity and the number of its
\* events, after a run that sent `sent` for it.
latest(before, sent) ==
    IF sent = << >> THEN before
    ELSE [kind |-> sent[Len(sent)].event, n |-> before.n + Len(sent)]

AnimInit ==
    /\ world = [e \in Entities |->
                  IF e = 1
                  THEN Spawn(NaturaSpringBundle_new(FInt(12), Half),
                             NaturaTarget_new(Dec(15, -2), Zero, Zero), 1)
                  ELSE Spawn(NaturaSpringBundle_with_easing(FInt(30), One, "EaseOut"),
                             NaturaTarget_new(One, FInt(2), Zero), 2)]
    /\ global_pause = FALSE
    /\ paused_groups = Some(PausedGroups_default)
    /\ events = NoEvents
    /\ frames = 0
    /\ controls = 0
    /\ retargeted = {}
    /\ held = None
    /\ emitted = NoneEmitted

\* The system reached the loop body for the entity.
Processed(e, dt) == ~returns_early(global_pause, dt) /\ ~skipped(world[e], paused_groups)

Ran(r, dt) ==
    /\ world' = [e \in Entities |-> r[e].c]
    /\ events' = [e \in Entities |-> r[e].sent]
    /\ retargeted' = {e \in retargeted : ~Processed(e, dt)}
    /\ emitted' = [e \in Entities |-> latest(emitted[e], r[e].sent)]

\* One run of natura_animation_system in the Update schedule.
Frame ==
    /\ frames < MaxFrames
    /\ \E dt \in FrameDeltas : Ran(natura_animation_system(world, global_pause, paused_groups, dt), dt)
    /\ frames' = frames + 1
    /\ UNCHANGED <<global_pause, paused_groups, controls, held>>

Position3(s) == Vec3(s.x, s.y, s.z)

\* The application writes the entity's NaturaTarget.
SetTarget(e, tgt) ==
    /\ controls < MaxControls
    /\ world[e].target # tgt
    /\ world' = [world EXCEPT ![e].target = tgt]
    /\ retargeted' = IF Position3(world[e].sprite) # tgt THEN retargeted \cup {e} ELSE retargeted \ {e}
    /\ controls' = controls + 1
    /\ UNCHANGED <<global_pause, paused_groups, events, frames, held, emitted>>

\* commands.entity(e).insert(AnimationPaused)
InsertAnimationPaused(e) ==
    /\ controls < MaxControls
    /\ ~world[e].paused
    /\ world' = [world EXCEPT ![e].paused = TRUE]
    /\ controls' = controls + 1
    /\ UNCHANGED <<global_pause, paused_groups, events, frames, retargeted, held, emitted>>

\* commands.entity(e).remove::<AnimationPaused>()
RemoveAnimationPaused(e) ==
    /\ controls < MaxControls
    /\ world[e].paused
    /\ world' = [world EXCEPT ![e].paused = FALSE]
    /\ controls' = controls + 1
    /\ UNCHANGED <<global_pause, paused_groups, events, frames, retargeted, held, emitted>>

\* paused_groups.pause(g)
Pause(g) ==
    /\ controls < MaxControls
    /\ ~PausedGroups_is_paused(paused_groups.value, g)
    /\ paused_groups' = Some(PausedGroups_pause(paused_groups.value, g))
    /\ controls' = controls + 1
    /\ UNCHANGED <<world, global_pause, events, frames, retargeted, held, emitted>>

\* paused_groups.resume(g)
Resume(g) ==
    /\ controls < MaxControls
    /\ PausedGroups_is_paused(paused_groups.value, g)
    /\ paused_groups' = Some(PausedGroups_resume(paused_groups.value, g))
    /\ controls' = controls + 1
    /\ UNCHANGED <<world, global_pause, events, frames, retargeted, held, emitted>>

\* commands.insert_resource(GlobalAnimationPaused)
InsertGlobalPause ==
    /\ controls < MaxControls
    /\ ~global_pause
    /\ global_pause' = TRUE
    /\ held' = Some([sprites |-> [e \in Entities |-> world[e].sprite], frames |-> frames])
    /\ controls' = controls + 1
    /\ UNCHANGED <<world, paused_groups, events, frames, retargeted, emitted>>

\* commands.remove_resource::<GlobalAnimationPaused>()
RemoveGlobalPause ==
    /\ controls < MaxControls
    /\ global_pause
    /\ global_pause' = FALSE
    /\ held' = None
    /\ controls' = controls + 1
    /\ UNCHANGED <<world, paused_groups, events, frames, retargeted, emitted>>

others == <<spring_vars, test_vars, projectile_vars, fps_vars, boundary_vars, call_vars>>

InitAnim == SpringIdle /\ TestIdle /\ ProjectileIdle /\ FpsIdle /\ AnimInit /\ BoundaryIdle /\ CallIdle

NextAnim ==
    \/ Frame /\ UNCHANGED others
    \/ \E e \in Entities, tgt \in AnimTargets : SetTarget(e, tgt) /\ UNCHANGED others
    \/ \E e \in Entities : InsertAnimationPaused(e) /\ UNCHANGED others
    \/ \E e \in Entities : RemoveAnimationPaused(e) /\ UNCHANGED others
    \/ \E g \in Groups : Pause(g) /\ UNCHANGED others
    \/ \E g \in Groups : Resume(g) /\ UNCHANGED others
    \/ InsertGlobalPause /\ UNCHANGED others
    \/ RemoveGlobalPause /\ UNCHANGED others

SpecAnim == InitAnim /\ [][NextAnim]_vars

\* The run of the system this step makes sent the event for the entity.
Sent(e, kind) == \E i \in DOMAIN events'[e] : events'[e][i].event = kind

\* The entity carries AnimationPaused, or an AnimationGroup whose id is in
\* PausedGroups.
CarriesPause(e) ==
    \/ world[e].paused
    \/ world[e].group.some /\ world[e].group.value \in paused_groups.value

\* Every axis velocity has magnitude below 0.01.
Slow(s) ==
    /\ FLt(FAbs(s.x_velocity), Dec(1, -2))
    /\ FLt(FAbs(s.y_velocity), Dec(1, -2))
    /\ FLt(FAbs(s.z_velocity), Dec(1, -2))

\* Every axis position is within 0.1 of the target.
Near(s, tgt) ==
    /\ FLt(FAbs(FSub(s.x, tgt.x)), Dec(1, -1))
    /\ FLt(FAbs(FSub(s.y, tgt.y)), Dec(1, -1))
    /\ FLt(FAbs(FSub(s.z, tgt.z)), Dec(1, -1))

\* C16 as stated: AnimationStarted is emitted for an entity in every
\* processed frame in which it begins animating from rest, and in every
\* processed frame that follows a change of its NaturaTarget to a position
\* it is not at, whatever AnimationState it is in when the target changes.
C16_StartedOnEveryTargetChange ==
    [][(frames' = frames + 1 /\ ~global_pause) =>
          \A e \in Entities :
             (/\ ~CarriesPause(e)
              /\ \/ e \in retargeted
                 \/ /\ world[e].state # "Animating"
                    /\ Slow(world[e].sprite)
                    /\ ~Slow(world'[e].sprite))
             => Sent(e, "AnimationStarted")]_vars

\* An entity in mid-animation whose target has just been changed.
C16_Witness ==
    \E e \in Entities :
       /\ e \in retargeted
       /\ world[e].state = "Animating"
       /\ ~Slow(world[e].sprite)
       /\ ~global_pause
       /\ ~CarriesPause(e)
       /\ frames < MaxFrames

\* C17: AnimationCompleted is emitted for an entity in a processed frame
\* exactly when its state at the start of the frame is Animating and, after
\* the frame's position update, every axis velocity has magnitude below 0.01
\* and every axis position is within 0.1 of the target; in that frame the
\* state becomes JustCompleted; the event is never emitted from Idle or
\* JustCompleted.
C17_CompletedExactlyAtRestOnTarget ==
    [][(frames' = frames + 1) =>
          \A e \in Entities :
             /\ Sent(e, "AnimationCompleted") <=>
                   /\ ~global_pause
                   /\ ~CarriesPause(e)
                   /\ world[e].state = "Animating"
                   /\ Slow(world'[e].sprite)
                   /\ Near(world'[e].sprite, world'[e].target)
             /\ Sent(e, "AnimationCompleted") =>
                   /\ world'[e].state = "JustCompleted"
                   /\ world[e].state \notin {"Idle", "JustCompleted"}]_vars

C17_Witness ==
    \E e \in Entities :
       /\ world[e].state = "JustCompleted"
       /\ Len(events[e]) = 1
       /\ events[e][1].event = "AnimationCompleted"
       /\ events[e][1].entity = e
       /\ Slow(world[e].sprite)
       /\ world[e].sprite.x_velocity # Zero

\* C18 as stated: JustCompleted lasts exactly one processed frame and is
\* followed by Idle: whenever an entity is in JustCompleted at the start of
\* a frame in which the system processes it, its state at the end of that
\* frame is Idle.
C18_JustCompletedThenIdle ==
    [][(frames' = frames + 1 /\ ~global_pause) =>
          \A e \in Entities :
             (~CarriesPause(e) /\ world[e].state = "JustCompleted")
             => world'[e].state = "Idle"]_vars

\* Entity 1, untouched by the application, animating again in the frame
\* after the one that completed its animation.
C18_Witness ==
    /\ controls = 0
    /\ frames = 4
    /\ world[1].state = "Animating"
    /\ Len(events[1]) = 1
    /\ events[1][1].event = "AnimationStarted"

\* C19: while the GlobalAnimationPaused resource is present, a run of
\* natura_animation_system changes no entity's NaturaSprite, Transform,
\* AnimationState or cached spring and emits no event; once the resource is
\* removed, animation resumes from exactly the position and velocity held
\* when it was inserted.
C19_GlobalPauseFreezes ==
    [][/\ (frames' = frames + 1 /\ global_pause) =>
             \A e \in Entities :
                /\ world'[e].sprite = world[e].sprite
                /\ world'[e].transform = world[e].transform
                /\ world'[e].state = world[e].state
                /\ world'[e].spring.cached_spring = world[e].spring.cached_spring
                /\ events'[e] = << >>
       /\ (global_pause /\ ~global_pause') =>
             \A e \in Entities : world'[e].sprite = held.value.sprites[e]
       /\ (frames' = frames + 1 /\ held.some) =>
             \A e \in Entities : world'[e].sprite = held.value.sprites[e]]_vars

\* The system has run while the resource was there, in mid-animation.
C19_Witness ==
    /\ global_pause
    /\ held.some
    /\ frames > held.value.frames
    /\ \E e \in Entities : world[e].state = "Animating" /\ ~Slow(world[e].sprite)

\* C20: in a processed frame an entity is skipped iff it carries
\* AnimationPaused or an AnimationGroup whose id is in PausedGroups, where
\* pause(g) and resume(g) change the membership of g alone.  A skipped
\* entity's sprite, transform and state are unchanged and no event is sent
\* for it, while every other entity is animated in that frame: its spring
\* is derived, its transform follows its sprite, and its sprite moves unless
\* it lies still on its target.
C20_SkippedIffPaused ==
    [][/\ (frames' = frames + 1 /\ ~global_pause) =>
             \A e \in Entities :
                IF CarriesPause(e)
                THEN /\ world'[e].sprite = world[e].sprite
                     /\ world'[e].transform = world[e].transform
                     /\ world'[e].state = world[e].state
                     /\ events'[e] = << >>
                ELSE /\ world'[e].spring.cached_spring.some
                     /\ world'[e].transform = Vec3(AsF32(world'[e].sprite.x), AsF32(world'[e].sprite.y), AsF32(world'[e].sprite.z))
                     /\ (world[e].sprite # NaturaSprite_new(world[e].target.x, world[e].target.y, world[e].target.z)
                           => world'[e].sprite # world[e].sprite)
       /\ (paused_groups' # paused_groups) =>
             \E g \in Groups :
                /\ (g \in paused_groups'.value) # (g \in paused_groups.value)
                /\ \A h \in Groups \ {g} : (h \in paused_groups'.value) = (h \in paused_groups.value)]_vars

\* A frame has left entity 1, whose group is paused, where it was spawned
\* and has animated entity 2.
C20_Witness ==
    /\ frames > 0
    /\ ~global_pause
    /\ paused_groups.value = {1}
    /\ world[1].sprite = NaturaSprite_new(Zero, Zero, Zero)
    /\ world[1].state = "Idle"
    /\ world[2].state = "Animating"
    /\ world[2].sprite.x # Zero

\* ------------------------------------------------------------------------
\* An application that groups its entities: entity 1 is spawned from
\* NaturaSpringBundle::with_group alone, entity 2 from NaturaSpringBundle::new
\* with an AnimationGroup component beside the bundle
\* ------------------------------------------------------------------------

\* The group both entities are meant for.
GroupId == 1

\* commands.spawn((bundle, target, Transform::default()))
SpawnAlone(bundle, tgt) ==
    [sprite |-> bundle.sprite, spring |-> bundle.spring, state |-> bundle.state,
     easing |-> Some(bundle.easing), target |-> tgt,
     transform |-> Vec3(Zero, Zero, Zero), group |-> None, paused |-> FALSE]

GroupInit ==
    /\ world = [e \in Entities |->
                  IF e = 1
                  THEN SpawnAlone(NaturaSpringBundle_with_group(FInt(12), Half, GroupId),
                                  NaturaTarget_new(One, FInt(2), Zero))
                  ELSE Spawn(NaturaSpringBundle_new(FInt(12), Half),
                             NaturaTarget_new(One, FInt(2), Zero), GroupId)]
    /\ global_pause = FALSE
    /\ paused_groups = Some(PausedGroups_default)
    /\ events = NoEvents
    /\ frames = 0
    /\ controls = 0
    /\ retargeted = {}
    /\ held = None
    /\ emitted = NoneEmitted

InitGroup == SpringIdle /\ TestIdle /\ ProjectileIdle /\ FpsIdle /\ GroupInit /\ BoundaryIdle /\ CallIdle

NextGroup ==
    \/ Frame /\ UNCHANGED others
    \/ \E g \in Groups : Pause(g) /\ UNCHANGED others
    \/ \E g \in Groups : Resume(g) /\ UNCHANGED others

SpecGroup == InitGroup /\ [][NextGroup]_vars

\* C21: an entity spawned from NaturaSpringBundle::with_group(w, z, g) alone
\* belongs to animation group g: in a frame run while g is paused the
\* system does not animate it, leaving its sprite, transform and state as
\* they were and sending no event for it.
C21_WithGroupJoinsGroup ==
    [][(frames' = frames + 1 /\ PausedGroups_is_paused(paused_groups.value, GroupId)) =>
          /\ world'[1].sprite = world[1].sprite
          /\ world'[1].transform = world[1].transform
          /\ world'[1].state = world[1].state
          /\ events'[1] = << >>]_vars

\* The group was paused before the first frame: the entity that carries
\* AnimationGroup lies where it was spawned, the entity spawned from
\* with_group alone is animating.
C21_Witness ==
    /\ frames > 0
    /\ PausedGroups_is_paused(paused_groups.value, GroupId)
    /\ world[2].sprite = NaturaSprite_new(Zero, Zero, Zero)
    /\ world[2].state = "Idle"
    /\ ~world[1].group.some
    /\ world[1].state = "Animating"
    /\ world[1].sprite.x # Zero

\* ------------------------------------------------------------------------
\* Calls of EasingCurve::apply
\* ------------------------------------------------------------------------

EasingCurves ==
    {"None", "EaseIn", "EaseOut", "EaseInOut", "QuadraticIn", "QuadraticOut", "CubicIn", "CubicOut", "Elastic", "Bounce"}

\* Arguments below, in and above the unit interval.
Progresses == {FInt(-2), Dec(-5, -1), Zero, Dec(25, -2), Half, Dec(75, -2), One, Dec(15, -1), FInt(3)}

EasingInit ==
    /\ \E curve \in EasingCurves, t \in Progresses : easing_call = Some([curve |-> curve, t |-> t, result |-> None])
    /\ component = None

\* let result = curve.apply(t);
Apply ==
    /\ easing_call.some
    /\ ~easing_call.value.result.some
    /\ easing_call' = Some([easing_call.value EXCEPT !.result = Some(EasingCurve_apply(easing_call.value.curve, easing_call.value.t))])
    /\ UNCHANGED component

InitEasing == SpringIdle /\ TestIdle /\ ProjectileIdle /\ FpsIdle /\ AnimIdle /\ BoundaryIdle /\ EasingInit

NextEasing == Apply /\ UNCHANGED <<spring_vars, test_vars, projectile_vars, fps_vars, anim_vars, boundary_vars>>

SpecEasing == InitEasing /\ [][NextEasing]_vars

Applied == easing_call.some /\ easing_call.value.result.some

\* apply(1) is 1, for Bounce within 0.001 of 1.
IsOne(curve, v) == IF curve = "Bounce" THEN FLt(FAbs(FSub(v, One)), Dec(1, -3)) ELSE v = One

\* C22: for every EasingCurve variant, apply clamps its argument to [0, 1]
\* before use, apply(t) = apply(0) for t < 0 and apply(t) = apply(1) for
\* t > 1, and fixes the endpoints: apply(0) = 0 and apply(1) = 1 (for
\* Bounce, apply(1) within 0.001 of 1); the None variant returns the
\* clamped argument itself.
C22_ClampedWithFixedEndpoints ==
    Applied =>
       /\ FLt(easing_call.value.t, Zero) =>
             easing_call.value.result.value = EasingCurve_apply(easing_call.value.curve, Zero)
       /\ FGt(easing_call.value.t, One) =>
             easing_call.value.result.value = EasingCurve_apply(easing_call.value.curve, One)
       /\ FLe(easing_call.value.t, Zero) => easing_call.value.result.value = Zero
       /\ FGe(easing_call.value.t, One) => IsOne(easing_call.value.curve, easing_call.value.result.value)
       /\ easing_call.value.curve = "None" =>
             easing_call.value.result.value =
                IF FLt(easing_call.value.t, Zero) THEN Zero
                ELSE IF FGt(easing_call.value.t, One) THEN One
                ELSE easing_call.value.t

\* CubicOut, whose unclamped polynomial is -26 at -2, has returned 0 there.
C22_Witness ==
    /\ Applied
    /\ easing_call.value.curve = "CubicOut"
    /\ easing_call.value.t = FInt(-2)
    /\ easing_call.value.result.value = Zero

\* ------------------------------------------------------------------------
\* A NaturaSpring component used directly: update calls with varying
\* deltas, and writes to its public fields
\* ------------------------------------------------------------------------

MaxCacheCalls == 3

MaxWrites == 1

\* delta_seconds of a call: apart by less and by more than 0.001.
CallDeltas == {Dec(16, -3), Dec(168, -4), Dec(175, -4), Dec(5, -2)}

WrittenFrequencies == {FInt(6), FInt(12)}

WrittenRatios == {Half, One}

\* The position the calls pull towards.
CacheTarget == One

CacheInit ==
    /\ component = Some([natura |-> NaturaSpring_new(FInt(6), Half), pos |-> Zero, vel |-> Zero,
                         call |-> None, n |-> 0, writes |-> 0])
    /\ easing_call = None

Returned(c, dt, r) ==
    [c EXCEPT !.natura = r.self, !.pos = r.pos, !.vel = r.vel, !.n = c.n + 1,
              !.call = Some([delta_seconds |-> dt, pos |-> c.pos, vel |-> c.vel])]

\* (pos, vel) = natura.update(pos, vel, target, dt)
CallUpdate(dt) ==
    /\ component.value.n < MaxCacheCalls
    /\ component' = Some(Returned(component.value, dt,
                                  NaturaSpring_update(component.value.natura, component.value.pos, component.value.vel, CacheTarget, dt)))
    /\ UNCHANGED easing_call

\* natura.angular_frequency = w
WriteAngularFrequency(w) ==
    /\ component.value.writes < MaxWrites
    /\ component.value.natura.angular_frequency # w
    /\ component' = Some([component.value EXCEPT !.natura.angular_frequency = w, !.writes = component.value.writes + 1])
    /\ UNCHANGED easing_call

\* natura.damping_ratio = z
WriteDampingRatio(z) ==
    /\ component.value.writes < MaxWrites
    /\ component.value.natura.damping_ratio # z
    /\ component' = Some([component.value EXCEPT !.natura.damping_ratio = z, !.writes = component.value.writes + 1])
    /\ UNCHANGED easing_call

InitCache == SpringIdle /\ TestIdle /\ ProjectileIdle /\ FpsIdle /\ AnimIdle /\ BoundaryIdle /\ CacheInit

NextCache ==
    \/ \E dt \in CallDeltas : CallUpdate(dt) /\ UNCHANGED <<spring_vars, test_vars, projectile_vars, fps_vars, anim_vars, boundary_vars>>
    \/ \E w \in WrittenFrequencies : WriteAngularFrequency(w) /\ UNCHANGED <<spring_vars, test_vars, projectile_vars, fps_vars, anim_vars, boundary_vars>>
    \/ \E z \in WrittenRatios : WriteDampingRatio(z) /\ UNCHANGED <<spring_vars, test_vars, projectile_vars, fps_vars, anim_vars, boundary_vars>>

SpecCache == InitCache /\ [][NextCache]_vars

\* This step is an update call.
Calls == component'.value.n = component.value.n + 1

\* The cache has nothing for the delta: it is empty, or its delta is more
\* than 0.001 away.
Stale(cache, dt) == ~cache.some \/ FGt(FAbs(FSub(cache.value.dt, dt)), Dec(1, -3))

\* C23: NaturaSpring recomputes its cached coefficients in a call to update
\* iff it has no cached spring or the call's delta_seconds differs from the
\* cached delta by more than 0.001; otherwise the cached spring and cached
\* delta are left untouched.  After every update call the cached delta is
\* within 0.001 of the call's delta, and it is the delta of the most recent
\* recomputation, not of the most recent call.
C23_RecomputedIffDeltaMoved ==
    [][Calls =>
          /\ IF Stale(component.value.natura.cached_spring, component'.value.call.value.delta_seconds)
             THEN component'.value.natura.cached_spring =
                     Some([dt |-> component'.value.call.value.delta_seconds,
                           spring |-> Spring_new(component'.value.call.value.delta_seconds,
                                                 component.value.natura.angular_frequency,
                                                 component.value.natura.damping_ratio).spring])
             ELSE component'.value.natura.cached_spring = component.value.natura.cached_spring
          /\ FLe(FAbs(FSub(component'.value.natura.cached_spring.value.dt, component'.value.call.value.delta_seconds)),
                 Dec(1, -3))]_vars

\* A call with delta 0.0168 has left the cache at the delta 0.016 of an
\* earlier call.
C23_Witness ==
    /\ component.some
    /\ component.value.n >= 2
    /\ component.value.call.value.delta_seconds = Dec(168, -4)
    /\ component.value.natura.cached_spring.value.dt = Dec(16, -3)
    /\ component.value.pos # Zero

\* What a Spring derived now from the component's public fields and its
\* cached delta returns for the arguments of the latest call.
Fresh(c) ==
    Spring_update(Spring_new(c.natura.cached_spring.value.dt, c.natura.angular_frequency, c.natura.damping_ratio).spring,
                  c.call.value.pos, c.call.value.vel, CacheTarget)

\* C28: the coefficients NaturaSpring::update applies always correspond to
\* the component's current public parameters: after any sequence of update
\* calls and of writes to the angular_frequency and damping_ratio fields,
\* update(pos, vel, eq, dt) returns what a spring freshly derived from the
\* current angular_frequency, the current damping_ratio and the cached
\* delta would return.
C28_AppliesCurrentParameters ==
    [][Calls =>
          /\ component'.value.pos = Fresh(component'.value).pos
          /\ component'.value.vel = Fresh(component'.value).vel]_vars

\* A call has followed a write of angular_frequency, and the cache still
\* holds the spring derived before the write.
C28_Witness ==
    /\ component.some
    /\ component.value.writes = 1
    /\ component.value.natura.angular_frequency = FInt(12)
    /\ component.value.call.some
    /\ component.value.natura.cached_spring.value.spring =
          Spring_new(component.value.natura.cached_spring.value.dt, FInt(6), Half).spring
    /\ component.value.pos # Fresh(component.value).pos

\* ------------------------------------------------------------------------
\* Divisors of the coefficient derivations
\* ------------------------------------------------------------------------

\* The arguments Spring::new passes on to the derivations.
ClampedFrequency == clamp_legal(angular_frequency)

ClampedRatio == clamp_legal(damping_ratio)

\* C24: no division by zero can occur in the coefficient derivations.
\* Whenever Spring::new takes the under-damped branch, the divisor
\* alpha = w * sqrt(1 - z*z) is strictly positive, and whenever it takes
\* the over-damped branch, the divisor 2 * zb = 2 * w * sqrt(z*z - 1) is
\* strictly positive; either branch is reached only with w >= EPSILON, the
\* first only with z < 1 - EPSILON and the second only with
\* z > 1 + EPSILON.
C24_DivisorsPositive ==
    /\ branch = "under_damped" =>
          /\ FGe(ClampedFrequency, EPSILON)
          /\ FLt(ClampedRatio, FSub(One, EPSILON))
          /\ FGt(under_damped_alpha(ClampedFrequency, ClampedRatio), Zero)
    /\ branch = "over_damped" =>
          /\ FGe(ClampedFrequency, EPSILON)
          /\ FGt(ClampedRatio, FAdd(One, EPSILON))
          /\ FGt(FMul(FInt(2), over_damped_zb(ClampedFrequency, ClampedRatio)),
                 Zero)

\* The under-damped branch taken at the edge of its domain: the smallest
\* angular frequency that is not treated as zero, and a damping ratio just
\* below 1 - EPSILON.
C24_Witness ==
    /\ pc = "ready"
    /\ branch = "under_damped"
    /\ angular_frequency = EPSILON
    /\ damping_ratio = Dec(999999989, -9)
    /\ FGt(under_damped_alpha(ClampedFrequency, ClampedRatio), Zero)

\* ------------------------------------------------------------------------
\* The value of fps
\* ------------------------------------------------------------------------

\* The arguments below 2^32, and those among them the model checker's
\* integers hold (below 2^31).
BelowTwo32(n) == n.w3 = 0 /\ n.w2 = 0

Small(n) == BelowTwo32(n) /\ n.w1 < Word \div 2

ValueOf(n) == n.w1 * Word + n.w0

\* floor(10^9 / n) for 1 <= n < 2^32; an n of 2^31 or more exceeds 10^9.
Quotient(n) == IF Small(n) THEN NANOS_PER_SEC \div ValueOf(n) ELSE 0

Divides(n) == Small(n) /\ NANOS_PER_SEC % ValueOf(n) = 0

\* n as a number, for n < 2^32 (a value of 2^31 or more only ever
\* multiplies a zero result, so its leading digits stand for it).
AsNumber(n) ==
    IF Small(n) THEN AsF64(ValueOf(n)) ELSE Dec(n.w1 \div 2, 5)

\* n mod 2^32
ModTwo32(n) == U64(0, 0, n.w1, n.w0)

MaxDeltaFrames == 4

\* Time::delta_secs_f64(): half the lower bound, the lower bound, a frame
\* at 62.5 frames per second, the upper bound, twice the upper bound.
AnyFrameDeltas == {Dec(5, -5), Dec(1, -4), Dec(16, -3), Dec(1, -1), Dec(2, -1)}

\* One run of natura_animation_system in a frame that took dt seconds.
FrameWith(dt) ==
    /\ frames < MaxDeltaFrames
    /\ Ran(natura_animation_system(world, global_pause, paused_groups, dt), dt)
    /\ frames' = frames + 1
    /\ UNCHANGED <<global_pause, paused_groups, controls, held>>

InitDelta == SpringIdle /\ TestIdle /\ ProjectileIdle /\ FpsIdle /\ AnimInit /\ BoundaryIdle /\ CallIdle

NextDelta == \E dt \in AnyFrameDeltas : FrameWith(dt) /\ UNCHANGED others

SpecDelta == InitDelta /\ [][NextDelta]_vars

OutOfRange(dt) == FLt(dt, Dec(1, -4)) \/ FGt(dt, Dec(1, -1))

\* What the loop body leaves of every entity, and the events it sends.
LoopRan(dt) ==
    /\ world' = [e \in Entities |-> for_entity(e, world[e], paused_groups, dt).c]
    /\ events' = [e \in Entities |-> for_entity(e, world[e], paused_groups, dt).sent]

\* C26: a frame whose delta time is below 0.0001 s or above 0.1 s is
\* skipped as a whole: the system changes no entity's sprite, transform,
\* state or cached spring and emits no event.  Frames whose delta is
\* exactly 0.0001 or exactly 0.1 are processed: the loop body runs for
\* every entity.
C26_OutOfRangeFrameSkipped ==
    [][\A dt \in AnyFrameDeltas :
          FrameWith(dt) =>
              /\ OutOfRange(dt) =>
                    /\ world' = world
                    /\ \A e \in Entities : events'[e] = << >>
              /\ dt \in {Dec(1, -4), Dec(1, -1)} => LoopRan(dt)]_vars

\* Of two frames, one took exactly 0.0001 s and moved the first entity,
\* and the other, out of range, left it alone.
C26_Witness ==
    /\ frames = 2
    /\ world[1] = animate(1, Spawn(NaturaSpringBundle_new(FInt(12), Half), NaturaTarget_new(Dec(15, -2), Zero, Zero), 1), Dec(1, -4)).c
    /\ world[1].sprite.x # Zero
    /\ world[1].sprite.x_velocity # Zero

\* ------------------------------------------------------------------------
\* The order of an entity's events
\* ------------------------------------------------------------------------

\* The step is a run of natura_animation_system.
IsFrame == frames' = frames + 1

\* The event follows the entity's previous one in the order
\* AnimationStarted, AnimationCompleted, AnimationStarted, ...
Alternates(before, event) ==
    IF event = "AnimationStarted" THEN before # "AnimationStarted"
    ELSE event = "AnimationCompleted" /\ before = "AnimationStarted"

====
